---- MODULE Spec2Model ----
(***************************************************************************)
(* A model of dronecot: the Open Drone ID decoder (open_drone_id.py), the  *)
(* CoT translators (functions.py) and the two queue workers (classes.py).  *)
(*                                                                         *)
(* Python values are tagged records [t, v]; a dict is a function whose     *)
(* domain is a set of key strings.  Text (str) and bytes are sequences of  *)
(* character codes.  Floats are integers counting hundredths; NaN is its   *)
(* own value.                                                              *)
(***************************************************************************)
EXTENDS Integers, Sequences, FiniteSets, TLC

VARIABLES
    LastPageIndex,     \* module global of open_drone_id.py: <<>> unbound, <<v>> bound
    Length,            \* module global of open_drone_id.py: <<>> unbound, <<v>> bound
    AuthValid,         \* ODIDValidBlocks.AuthValid, the list shared by all instances
    last_blob,         \* index (in BlobTable) of the blob decoded last, 0 before any
    last_result,       \* what that decode returned or raised
    decoded,           \* every <<blob index, result>> a decode has produced
    x_message,         \* translator run: the framed data message handed in
    x_config,          \* translator run: the configuration handed in
    x_data,            \* translator run: what parse_sensor_data returned
    x_event,           \* translator run: what rid_uas_to_cot_xml returned
    x_op_event,        \* translator run: what rid_op_to_cot_xml returned
    x_pc,              \* translator run: "parse", "translate", "done", "both" or "raised"
    w_config,          \* the configuration both workers were made with
    mqtt_state,        \* MQTTWorker.run: "running", or the exception that ended it
    rid_state,         \* RIDWorker.run: "running", or the exception that ended it
    sensor_positions,  \* MQTTWorker.sensor_positions
    net_queue,         \* the queue between the workers (MQTTWorker.queue)
    tx_queue,          \* the egress queue (RIDWorker.queue)
    m_log,             \* per inbound message: its index, what it raised, how many records it queued
    m_last,            \* the last inbound message: the objects framed, the handler each
                       \* went to, the records queued, and the cache as it was before
    r_log,             \* per dequeued record: the record, what it raised, the events it put
    f_message,         \* framer run: the inbound message handed to parse_message
    f_text,            \* framer run: what decode_payload returned or raised
    f_result,          \* framer run: what parse_message raised, framed and queued
    f_pc               \* framer run: "parse" or "done"

globalVars == <<LastPageIndex, Length, AuthValid>>
decodeVars == <<last_blob, last_result, decoded>>
xlateVars == <<x_message, x_config, x_data, x_event, x_op_event, x_pc>>
workerVars == <<w_config, mqtt_state, rid_state, sensor_positions, net_queue, tx_queue>>
logVars == <<m_log, m_last, r_log>>
frameVars == <<f_message, f_text, f_result, f_pc>>

vars == <<globalVars, decodeVars, xlateVars, workerVars, logVars, frameVars>>

-----------------------------------------------------------------------------
(* Python values *)

None == [t |-> "none", v |-> 0]
PyInt(n) == [t |-> "int", v |-> n]
PyFloat(n) == [t |-> "float", v |-> n]
NaN == [t |-> "nan", v |-> 0]
PyStr(s) == [t |-> "str", v |-> s]
PyTuple1(x) == [t |-> "tuple", v |-> x]
PyDict(d) == [t |-> "dict", v |-> d]

EmptyDict == <<>>

\* d.get(k): the value, or None
Get(d, k) == IF k \in DOMAIN d THEN d[k] ELSE None

\* d.get(k, default)
GetDefault(d, k, default) == IF k \in DOMAIN d THEN d[k] ELSE default

\* a | b: the union of two dicts, b's value winning on a shared key
Merge(a, b) ==
    [k \in (DOMAIN a) \cup (DOMAIN b) |-> IF k \in DOMAIN b THEN b[k] ELSE a[k]]

RECURSIVE RStripNul(_)
\* s.rstrip("\x00")
RStripNul(s) ==
    IF Len(s) > 0 /\ s[Len(s)] = 0 THEN RStripNul(SubSeq(s, 1, Len(s) - 1)) ELSE s

\* bytes.decode("ascii") succeeds only on codes below 128
IsAscii(b) == \A i \in 1..Len(b) : b[i] < 128

HexDigit(n) == IF n < 10 THEN 48 + n ELSE 87 + n

\* bytes.hex(): two lower-case hexadecimal digits per byte
Hex(b) ==
    [i \in 1..(2 * Len(b)) |->
        IF i % 2 = 1 THEN HexDigit(b[(i + 1) \div 2] \div 16)
                     ELSE HexDigit(b[i \div 2] % 16)]

RECURSIVE Digits(_)
\* the decimal digits of n >= 0
Digits(n) == IF n < 10 THEN <<48 + n>> ELSE Digits(n \div 10) \o <<48 + (n % 10)>>

\* str(n) of an int
StrInt(n) == IF n < 0 THEN <<45>> \o Digits(0 - n) ELSE Digits(n)

\* str(x) of a float of h hundredths: the shortest decimal, at least one
\* digit after the point
StrFloat(h) ==
    LET a == IF h < 0 THEN 0 - h ELSE h
        frac == IF a % 10 = 0 THEN <<48 + ((a % 100) \div 10)>>
                ELSE <<48 + ((a % 100) \div 10), 48 + (a % 10)>>
    IN  (IF h < 0 THEN <<45>> ELSE <<>>) \o Digits(a \div 100) \o <<46>> \o frac

\* str(x), also what an f-string puts for {x}
StrOf(x) ==
    CASE x.t = "str" -> x.v
      [] x.t = "int" -> StrInt(x.v)
      [] x.t = "float" -> StrFloat(x.v)
      [] x.t = "nan" -> <<110, 97, 110>>
      [] x.t = "none" -> <<78, 111, 110, 101>>
      [] x.t = "tuple" -> <<40, 39>> \o x.v.v \o <<39, 44, 41>>

RECURSIVE ParseInt(_)
\* int(s) of a string of decimal digits
ParseInt(s) ==
    IF Len(s) = 0 THEN 0
    ELSE 10 * ParseInt(SubSeq(s, 1, Len(s) - 1)) + (s[Len(s)] - 48)

\* bool(x)
Truthy(x) ==
    CASE x.t = "none" -> FALSE
      [] x.t = "str" -> Len(x.v) > 0
      [] x.t = "int" -> x.v # 0
      [] x.t = "float" -> x.v # 0
      [] x.t = "dict" -> DOMAIN x.v # {}
      [] OTHER -> TRUE

\* payload[a : a + n] of a byte field held as a sequence
Slice(b, n) == SubSeq(b, 1, IF n < Len(b) THEN n ELSE Len(b))

-----------------------------------------------------------------------------
(* The binary blob.  A blob is held by its blocks: every block is the      *)
(* record of the fields the decoder unpacks from it, the validity bytes    *)
(* are the function 892..913 -> byte, and len is the blob's length.        *)

MinBlobLen == 914
ValidBase == 892
AuthValidBase == 895
NAuthPages == 16
NAuthFlagsRead == 14
AuthPage0Len == 17
AuthPageLen == 23
RidEpoch == 1546300800

\* strftime("%Y-%m-%d %H:%M %Z") of ts + 1546300800: the minute it falls in
\* (the epoch is a whole number of minutes, so the sum is taken in minutes)
Strftime(ts) == [t |-> "strftime", v |-> (ts \div 60) + (RidEpoch \div 60)]

BasicIDLen == 21
OperatorIDLen == 20
DescLen == 23

\* s followed by NUL padding up to n bytes
Pad(s, n) == s \o [i \in 1..(n - Len(s)) |-> 0]

\* payload[off] for a validity byte: IndexError beyond the blob's end
CanRead(payload, off) == off < payload.len

\* float comparisons: each is False when the float is NaN
Gt(x, c) == x.t = "float" /\ x.v > c
Lt(x, c) == x.t = "float" /\ x.v < c
Le(x, c) == x.t = "float" /\ x.v <= c
Eq(x, c) == x.t = "float" /\ x.v = c

Ok(pl) == [err |-> "", pl |-> pl]
Raise(e) == [err |-> e, pl |-> EmptyDict]

-----------------------------------------------------------------------------
(* ODIDValidBlocks and decode_valid_blocks *)

\* the class attribute AuthValid as the class body leaves it
AuthValidInit == [x \in 0..(NAuthPages - 1) |-> 0]

\* the offsets decode_valid_blocks reads, in the order it reads them
ValidOffsetsRead == (ValidBase..(AuthValidBase + NAuthFlagsRead - 1)) \cup {911, 912, 913}

\* decode_valid_blocks(payload, ODIDValidBlocks()): the instance attributes it
\* sets, the shared AuthValid list as it leaves it, and IndexError when an
\* offset lies beyond the blob (the reads before it have then happened).
decode_valid_blocks(payload, authValid) ==
    LET newAuth == [x \in 0..(NAuthPages - 1) |->
                      IF x < NAuthFlagsRead /\ CanRead(payload, AuthValidBase + x)
                      THEN payload.valid[AuthValidBase + x]
                      ELSE authValid[x]]
    IN  [err |-> IF \A off \in ValidOffsetsRead : CanRead(payload, off)
                 THEN "" ELSE "IndexError",
         BasicID0_valid |-> IF CanRead(payload, 892) THEN payload.valid[892] ELSE 0,
         BasicID1_valid |-> IF CanRead(payload, 893) THEN payload.valid[893] ELSE 0,
         LocationValid |-> IF CanRead(payload, 894) THEN payload.valid[894] ELSE 0,
         SelfIDValid |-> IF CanRead(payload, 911) THEN payload.valid[911] ELSE 0,
         SystemValid |-> IF CanRead(payload, 912) THEN payload.valid[912] ELSE 0,
         OperatorIDValid |-> IF CanRead(payload, 913) THEN payload.valid[913] ELSE 0,
         AuthValid |-> newAuth]

-----------------------------------------------------------------------------
(* The block parsers *)

parse_basicID0(payload) ==
    LET b == payload.BasicID0
    IN  IF b.IDType = 1 \/ b.IDType = 2
        THEN IF IsAscii(b.id)
             THEN Ok([UAType |-> PyInt(b.UAType), IDType |-> PyInt(b.IDType),
                      BasicID |-> PyStr(RStripNul(b.id))])
             ELSE Raise("UnicodeDecodeError")
        ELSE Ok([UAType |-> PyInt(b.UAType), IDType |-> PyInt(b.IDType),
                 BasicID |-> PyTuple1(PyStr(Hex(b.id)))])

parse_basicID1(payload) ==
    LET b == payload.BasicID1
    IN  IF b.IDType = 1 \/ b.IDType = 2
        THEN IF IsAscii(b.id)
             THEN Ok([UAType |-> PyInt(b.UAType), IDType |-> PyInt(b.IDType),
                      BasicID |-> PyStr(RStripNul(b.id))])
             ELSE Raise("UnicodeDecodeError")
        ELSE Ok([UAType |-> PyInt(b.UAType), IDType |-> PyInt(b.IDType),
                 BasicID |-> PyStr(Hex(b.id))])

DirectionMax == 36000
SpeedHorizontalMax == 25425
SpeedVerticalMax == 6200
LatitudeMax == 9000
LongitudeMax == 18000
AltitudeMin == -100000
AltitudeMax == 3176750
TimeStampMax == 360000

\* a latitude (or longitude) that is 0.0 or beyond the bound becomes NaN
CoordOrNaN(x, bound) == IF Eq(x, 0) \/ Gt(x, bound) \/ Lt(x, 0 - bound) THEN NaN ELSE x

\* an altitude at or below -1000.0 or above 31767.5 becomes NaN
AltOrNaN(x) == IF Le(x, AltitudeMin) \/ Gt(x, AltitudeMax) THEN NaN ELSE x

parse_Location(payload) ==
    LET b == payload.Location
        base ==
          [Status |-> PyInt(b.Status),
           Direction |-> IF Gt(b.Direction, DirectionMax) \/ Lt(b.Direction, 0)
                         THEN NaN ELSE b.Direction,
           SpeedHorizontal |-> IF Gt(b.SpeedHorizontal, SpeedHorizontalMax)
                                  \/ Lt(b.SpeedHorizontal, 0)
                               THEN NaN ELSE b.SpeedHorizontal,
           SpeedVertical |-> IF Gt(b.SpeedVertical, SpeedVerticalMax)
                                \/ Lt(b.SpeedVertical, 0 - SpeedVerticalMax)
                             THEN NaN ELSE b.SpeedVertical,
           Latitude |-> CoordOrNaN(b.Latitude, LatitudeMax),
           Longitude |-> CoordOrNaN(b.Longitude, LongitudeMax),
           AltitudeBaro |-> AltOrNaN(b.AltitudeBaro),
           AltitudeGeo |-> AltOrNaN(b.AltitudeGeo),
           HeightType |-> PyInt(b.HeightType),
           Height |-> AltOrNaN(b.Height),
           HorizAccuracy |-> PyInt(b.HorizAccuracy),
           VertAccuracy |-> PyInt(b.VertAccuracy),
           BaroAccuracy |-> PyInt(b.BaroAccuracy),
           SpeedAccuracy |-> PyInt(b.SpeedAccuracy),
           TSAccuracy |-> PyInt(b.TSAccuracy)]
    IN  Ok(IF Gt(b.TimeStamp, 0) /\ Le(b.TimeStamp, TimeStampMax)
           THEN Merge(base, [TimeStamp |->
                   [t |-> "tuple3",
                    v |-> <<b.TimeStamp.v \div 6000, (b.TimeStamp.v % 6000) \div 100,
                            b.TimeStamp.v % 100>>]])
           ELSE base)

parse_SelfID(payload) ==
    LET b == payload.SelfID
    IN  IF IsAscii(b.Desc)
        THEN Ok([DescType |-> PyInt(b.DescType), Desc |-> PyStr(RStripNul(b.Desc))])
        ELSE Raise("UnicodeDecodeError")

AreaUnknown == -100000

parse_System(payload) ==
    LET b == payload.System
        base ==
          [OperatorLocationType |-> PyInt(b.OperatorLocationType),
           ClassificationType |-> PyInt(b.ClassificationType),
           OperatorLatitude |-> CoordOrNaN(b.OperatorLatitude, LatitudeMax),
           OperatorLongitude |-> CoordOrNaN(b.OperatorLongitude, LongitudeMax),
           AreaCount |-> PyInt(b.AreaCount),
           AreaRadius |-> PyInt(b.AreaRadius),
           AreaCeiling |-> IF Eq(b.AreaCeiling, AreaUnknown) THEN NaN ELSE b.AreaCeiling,
           AreaFloor |-> IF Eq(b.AreaFloor, AreaUnknown) THEN NaN ELSE b.AreaFloor,
           CategoryEU |-> PyInt(b.CategoryEU),
           ClassEU |-> PyInt(b.ClassEU),
           OperatorAltitudeGeo |-> AltOrNaN(b.OperatorAltitudeGeo),
           TimestampRaw |-> PyInt(b.Timestamp)]
    IN  Ok(IF b.Timestamp # 0
           THEN Merge(base, [Timestamp |-> PyTuple1(Strftime(b.Timestamp))])
           ELSE base)

parse_OperatorID(payload) ==
    LET b == payload.OperatorID
    IN  IF IsAscii(b.id)
        THEN Ok([OperatorIdType |-> PyInt(b.OperatorIdType),
                 OperatorID |-> PyStr(RStripNul(b.id))])
        ELSE Raise("UnicodeDecodeError")

\* a tail length that counts a last page filled to the brim as 23 bytes
AuthTailLenFullPage(length) == ((length - AuthPage0Len - 1) % AuthPageLen) + 1

\* (Length - 17) % 23: the number of bytes parse_AuthPage keeps of the last page
AuthTailLen(length) == (length - AuthPage0Len) % AuthPageLen

\* parse_AuthPage(payload, page) run with the globals bound as lpi and len say.
\* AuthData is the function's local variable of that name; pl is what it returns.
parse_AuthPage(payload, page, lpi, len) ==
    LET b == payload.Auth[page]
        base == [DataPage |-> PyInt(b.DataPage), AuthType |-> PyInt(b.AuthType)]
    IN  IF page = 0
        THEN LET head == Merge(base, [LastPageIndex |-> PyInt(b.LastPageIndex),
                                      Length |-> PyInt(b.Length)])
                 timed == IF b.Timestamp # 0
                          THEN Merge(head, [Timestamp |-> Strftime(b.Timestamp)])
                          ELSE head
                 data == Slice(b.data, AuthPage0Len)
             IN  [err |-> "", pl |-> Merge(timed, [AuthData |-> PyStr(Hex(data))]),
                  AuthData |-> data,
                  LastPageIndex |-> <<b.LastPageIndex>>, Length |-> <<b.Length>>]
        ELSE IF lpi = <<>>
        THEN [err |-> "NameError", pl |-> EmptyDict, AuthData |-> <<>>,
              LastPageIndex |-> lpi, Length |-> len]
        ELSE IF page = lpi[1]
        THEN [err |-> "", pl |-> base,
              AuthData |-> Slice(b.data, AuthTailLen(len[1])),
              LastPageIndex |-> lpi, Length |-> len]
        ELSE [err |-> "", pl |-> Merge(base, [AuthData |-> PyStr(Hex(Slice(b.data, AuthPageLen)))]),
              AuthData |-> Slice(b.data, AuthPageLen),
              LastPageIndex |-> lpi, Length |-> len]

\* a step of parse_payload in which the record so far wins over the block
Block_keeping_earlier(r, valid, p) ==
    IF r.err # "" \/ valid # 1 THEN r
    ELSE IF p.err # "" THEN [r EXCEPT !.err = p.err]
    ELSE [r EXCEPT !.pl = Merge(p.pl, r.pl)]

\* one "if valid == 1: pl = pl | parse_X(payload)" step of parse_payload
Block(r, valid, p) ==
    IF r.err # "" \/ valid # 1 THEN r
    ELSE IF p.err # "" THEN [r EXCEPT !.err = p.err]
    ELSE [r EXCEPT !.pl = Merge(r.pl, p.pl)]

\* "pl = pl | parse_AuthPage(payload, x)": p is what the call on page x gave
AuthPage(r, x, p) ==
    [err |-> p.err,
     pl |-> IF p.err = "" THEN Merge(r.pl, p.pl) ELSE r.pl,
     LastPageIndex |-> p.LastPageIndex,
     Length |-> p.Length,
     pages |-> IF p.err = ""
               THEN Merge(r.pages, (x :> [pl |-> p.pl, AuthData |-> p.AuthData]))
               ELSE r.pages]

RECURSIVE AuthPages(_, _, _, _)
\* "for x in range(16): if valid_blocks.AuthValid[x] == 1: ..." from page x on
AuthPages(payload, authValid, x, r) ==
    IF x >= NAuthPages \/ r.err # "" THEN r
    ELSE IF authValid[x] # 1 THEN AuthPages(payload, authValid, x + 1, r)
    ELSE AuthPages(payload, authValid, x + 1,
            AuthPage(r, x, parse_AuthPage(payload, x, r.LastPageIndex, r.Length)))

\* parse_payload(payload, valid_blocks) run with the globals bound as lpi and
\* len say: err is the exception it raises ("" for none), pl the merged
\* record, LastPageIndex and Length the globals as it leaves them, pages what
\* each call of parse_AuthPage returned.
parse_payload(payload, vb, lpi, len) ==
    LET r0 == [err |-> "", pl |-> EmptyDict, LastPageIndex |-> lpi, Length |-> len,
               pages |-> EmptyDict]
        r1 == Block(r0, vb.BasicID0_valid, parse_basicID0(payload))
        r2 == Block(r1, vb.BasicID1_valid, parse_basicID1(payload))
        r3 == Block(r2, vb.LocationValid, parse_Location(payload))
        r4 == Block(r3, vb.SelfIDValid, parse_SelfID(payload))
        r5 == Block(r4, vb.SystemValid, parse_System(payload))
        r6 == Block(r5, vb.OperatorIDValid, parse_OperatorID(payload))
    IN  AuthPages(payload, vb.AuthValid, 0, r6)

\* what the two calls leave behind: r is what parse_payload gave, authValid
\* the shared list as decode_valid_blocks left it
Decoded(r, authValid) ==
    [err |-> r.err, pl |-> IF r.err = "" THEN r.pl ELSE EmptyDict,
     LastPageIndex |-> r.LastPageIndex, Length |-> r.Length,
     pages |-> r.pages, AuthValid |-> authValid]

\* parse_payload, reached only when decode_valid_blocks (vb) did not raise
ParseValid(payload, vb, lpi, len) ==
    IF vb.err # ""
    THEN [err |-> vb.err, pl |-> EmptyDict, LastPageIndex |-> lpi, Length |-> len,
          pages |-> EmptyDict, AuthValid |-> vb.AuthValid]
    ELSE Decoded(parse_payload(payload, vb, lpi, len), vb.AuthValid)

\* decode_valid_blocks followed by parse_payload, as both callers run them
DecodeBlob(payload, authValid, lpi, len) ==
    ParseValid(payload, decode_valid_blocks(payload, authValid), lpi, len)

-----------------------------------------------------------------------------
(* constants.py, and the pytak defaults the translators fall back to *)

DEFAULT_SENSOR_ID == PyStr(<<100, 114, 111, 110, 101, 99, 111, 116, 95, 104, 111, 115, 116>>)
DEFAULT_SENSOR_PAYLOAD_TYPE ==
    PyStr(<<85, 110, 107, 110, 111, 119, 110, 45, 83, 101, 110, 115, 111, 114, 45,
            80, 97, 121, 108, 111, 97, 100, 45, 84, 121, 112, 101>>)
DEFAULT_SENSOR_COT_TYPE == "a-f-G-E-S-E"
DEFAULT_OP_COT_TYPE == "a-u-G"
DEFAULT_UAS_COT_TYPE == "a-u-A-M-H-Q"

PYTAK_DEFAULT_COT_STALE == <<49, 50, 48>>
PYTAK_DEFAULT_HOST_ID == "pytak@host"
PYTAK_DEFAULT_COT_ACCESS == "UNCLASSIFIED"

\* "9999999.0"
UnknownValue == <<57, 57, 57, 57, 57, 57, 57, 46, 48>>
\* "Unknown-BasicID_0"
UnknownBasicID ==
    PyStr(<<85, 110, 107, 110, 111, 119, 110, 45, 66, 97, 115, 105, 99, 73, 68, 95, 48>>)

-----------------------------------------------------------------------------
(* functions.py: the translators.  An Element is held as the record of its *)
(* attributes and children; the time attributes, which read the clock, and *)
(* the flow tags are left out.                                             *)

Element(ev) == [t |-> "Element", v |-> ev]

\* str(x or default): what pytak.gen_cot_xml puts for an argument of the point
OrDefault(x, default) == IF Truthy(x) THEN StrOf(x) ELSE default

\* pytak.gen_cot_xml(lat, lon, ce, le, hae, uid, cot_type, stale): the event
\* with its point; how is "m-g"
gen_cot_xml(lat, lon, ce, le, hae, uid, cot_type, stale) ==
    [uid |-> uid, type |-> cot_type, how |-> "m-g", stale |-> stale,
     point |-> [lat |-> OrDefault(lat, <<48, 46, 48>>),
                lon |-> OrDefault(lon, <<48, 46, 48>>),
                ce |-> OrDefault(ce, UnknownValue),
                le |-> OrDefault(le, UnknownValue),
                hae |-> OrDefault(hae, UnknownValue)]]

\* a timestamp read from the System block's field of the decoded record
CuasTimestampFromBlob(data, src_data) == StrOf(Get(data, "TimestampRaw"))

\* cuas.set("timestamp", str(src_data.get("timestamp")))
CuasTimestamp(data, src_data) == StrOf(Get(src_data, "timestamp"))

\* the __cuas element of the UAS event
CuasElement(data, src_data, cot_host_id, op_id, uasid) ==
    [sensor_id |-> GetDefault(src_data, "sensor_id",
                     GetDefault(src_data, "sensor_id", DEFAULT_SENSOR_ID)),
     rssi |-> StrOf(Get(src_data, "RSSI")),
     channel |-> StrOf(Get(src_data, "channel")),
     timestamp |-> CuasTimestamp(data, src_data),
     mac_address |-> StrOf(Get(src_data, "MAC address")),
     type |-> StrOf(GetDefault(src_data, "type", DEFAULT_SENSOR_PAYLOAD_TYPE)),
     host_id |-> cot_host_id,
     rid_op |-> op_id,
     rid_uas |-> uasid]

\* cot_uid = f"RID.{uasid}.op"
OpCotUid(uasid) == <<82, 73, 68, 46>> \o StrOf(uasid) \o <<46, 111, 112>>

\* the __cuas element of the operator event: 'cotx.set("OperatorID", op_id);
\* cotx.set("UASID", op_id)'
OpCuasElement(cot_host_id, op_id, uasid) ==
    [cot_host_id |-> cot_host_id, OperatorID |-> op_id, UASID |-> op_id]

\* the event rid_op_to_cot_xml builds once it has a latitude and a longitude
OpEvent(data, config, uasid, op_id, cot) ==
    Element(
      [uid |-> cot.uid, type |-> cot.type, how |-> cot.how, stale |-> cot.stale,
       access |-> GetDefault(config, "COT_ACCESS", PYTAK_DEFAULT_COT_ACCESS),
       point |-> cot.point,
       contact |-> [callsign |-> op_id],
       cuas |-> OpCuasElement(GetDefault(config, "COT_HOST_ID", PYTAK_DEFAULT_HOST_ID),
                              op_id, uasid),
       remarks |-> <<uasid, op_id,
                     GetDefault(config, "COT_HOST_ID", PYTAK_DEFAULT_HOST_ID)>>])

\* rid_op_to_cot_xml after its test of the coordinates, uasid being
\* data.get("BasicID", data.get("BasicID_0", "Unknown-BasicID_0"))
OpTranslated(data, config, uasid) ==
    OpEvent(data, config, uasid, GetDefault(data, "OperatorID", uasid),
        gen_cot_xml(PyStr(StrOf(Get(data, "OperatorLatitude"))),
            PyStr(StrOf(Get(data, "OperatorLongitude"))),
            PyStr(StrOf(GetDefault(data, "HorizAccuracy", PyStr(UnknownValue)))),
            PyStr(StrOf(GetDefault(data, "VertAccuracy", PyStr(UnknownValue)))),
            PyStr(StrOf(GetDefault(data, "OperatorAltitudeGeo", PyStr(UnknownValue)))),
            OpCotUid(uasid),
            GetDefault(config, "OP_COT_TYPE", DEFAULT_OP_COT_TYPE),
            ParseInt(GetDefault(config, "COT_STALE", PYTAK_DEFAULT_COT_STALE))))

rid_op_to_cot_xml(data, config) ==
    IF Get(data, "OperatorLatitude") = None \/ Get(data, "OperatorLongitude") = None
    THEN None
    ELSE OpTranslated(data, config,
             GetDefault(data, "BasicID", GetDefault(data, "BasicID_0", UnknownBasicID)))

\* cot_type = config.get("UAS_COT_TYPE", dronecot.DEFAULT_UAS_COT_TYPE)
UasCotType(config) == GetDefault(config, "UAS_COT_TYPE", DEFAULT_UAS_COT_TYPE)

\* cot_uid = f"RID.{uasid}.uas"
UasCotUid(uasid) == <<82, 73, 68, 46>> \o StrOf(uasid) \o <<46, 117, 97, 115>>

rid_uas_to_cot_xml(data, config) ==
    LET lat == Get(data, "Latitude")
        lon == Get(data, "Longitude")
    IN  IF lat = None \/ lon = None THEN None
        ELSE
        LET src_data == GetDefault(data, "data", PyDict(EmptyDict)).v
            uasid == GetDefault(data, "BasicID",
                        GetDefault(data, "BasicID_0", UnknownBasicID))
            op_id == GetDefault(data, "OperatorID", uasid)
            op_uid == <<82, 73, 68, 46>> \o StrOf(op_id) \o <<46, 111, 112>>
            cot_uid == UasCotUid(uasid)
            cot_type == UasCotType(config)
            cot_stale == ParseInt(GetDefault(config, "COT_STALE", PYTAK_DEFAULT_COT_STALE))
            cot_host_id == GetDefault(config, "COT_HOST_ID", PYTAK_DEFAULT_HOST_ID)
            cot == gen_cot_xml(PyStr(StrOf(lat)), PyStr(StrOf(lon)),
                       PyStr(StrOf(GetDefault(data, "HorizAccuracy", PyStr(UnknownValue)))),
                       PyStr(StrOf(GetDefault(data, "VertAccuracy", PyStr(UnknownValue)))),
                       PyStr(StrOf(GetDefault(data, "AltitudeGeo", PyStr(UnknownValue)))),
                       cot_uid, cot_type, cot_stale)
        IN  Element(
              [uid |-> cot.uid, type |-> cot.type, how |-> cot.how, stale |-> cot.stale,
               access |-> GetDefault(config, "COT_ACCESS", PYTAK_DEFAULT_COT_ACCESS),
               point |-> cot.point,
               contact |-> [callsign |-> uasid],
               track |-> [speed |-> StrOf(GetDefault(data, "SpeedHorizontal", PyInt(0)))],
               link |-> [uid |-> op_uid, type |-> "a-n-G", parent_callsign |-> op_id,
                         relation |-> "p-p"],
               cuas |-> CuasElement(data, src_data, cot_host_id, op_id, uasid),
               remarks |-> <<uasid, op_id, cot_host_id>>])

\* 'pl["data"] = message.get("data"); pl["topic"] = message["topic"]' on the
\* record r that the decode of the blob gave
SensorRecord(message, r) ==
    [err |-> r.err,
     ret |-> IF r.err # "" THEN None
             ELSE PyDict(Merge(r.pl, [data |-> Get(message, "data"),
                                      topic |-> message["topic"]])),
     LastPageIndex |-> r.LastPageIndex, Length |-> r.Length,
     AuthValid |-> r.AuthValid]

\* parse_sensor_data(message) run with the decoder's globals as given: ret is
\* what it returns (None or the record), err the exception it raises
parse_sensor_data(message, authValid, lpi, len) ==
    LET protocol == Get(message, "protocol")
        keep == [err |-> "", ret |-> None, LastPageIndex |-> lpi, Length |-> len,
                 AuthValid |-> authValid]
    IN  IF ~Truthy(protocol) \/ StrOf(protocol) # <<49, 46, 48>> THEN keep
        ELSE IF Get(message, "data").t # "dict" THEN [keep EXCEPT !.err = "AttributeError"]
        ELSE
        LET data == Get(message, "data")
            uasdata == Get(data.v, "UASdata")
        IN  IF ~Truthy(uasdata) THEN keep
            ELSE
            SensorRecord(message, DecodeBlob(uasdata.v, authValid, lpi, len))

-----------------------------------------------------------------------------
(* The blobs the model decodes *)

\* "1787" and "OP1" as ASCII codes
SampleUasId == <<49, 55, 56, 55>>
SampleOpId == <<79, 80, 49>>

BasicIdBlock(idType, id) == [UAType |-> 2, IDType |-> idType, id |-> Pad(id, BasicIDLen)]

LocationBlock(lat, lon) ==
    [Status |-> 2, Direction |-> PyFloat(12600), SpeedHorizontal |-> PyFloat(1275),
     SpeedVertical |-> NaN, Latitude |-> lat, Longitude |-> lon,
     AltitudeBaro |-> PyFloat(-100000), AltitudeGeo |-> PyFloat(2800),
     HeightType |-> 0, Height |-> PyFloat(11550),
     HorizAccuracy |-> 12, VertAccuracy |-> 5, BaroAccuracy |-> 4,
     SpeedAccuracy |-> 1, TSAccuracy |-> 15, TimeStamp |-> PyFloat(123456)]

SystemBlock(lat, lon) ==
    [OperatorLocationType |-> 0, ClassificationType |-> 1,
     OperatorLatitude |-> lat, OperatorLongitude |-> lon,
     AreaCount |-> 1, AreaRadius |-> 500, AreaCeiling |-> PyFloat(-100000),
     AreaFloor |-> PyFloat(-100000), CategoryEU |-> 1, ClassEU |-> 5,
     OperatorAltitudeGeo |-> PyFloat(9600), Timestamp |-> 708224640]

\* authentication page q: its header bytes and the 23 bytes of its data area
AuthPageBlock(q, lpi, length) ==
    [DataPage |-> q, AuthType |-> 1, LastPageIndex |-> lpi, Length |-> length,
     Timestamp |-> 708224700,
     data |-> [i \in 1..AuthPageLen |-> (q * AuthPageLen + i) % 256]]

\* the validity bytes: 1 at the offsets of on, 0 elsewhere
Flags(on) == [o \in ValidBase..(MinBlobLen - 1) |-> IF o \in on THEN 1 ELSE 0]

\* a blob of len bytes with the blocks at the offsets of on flagged valid and
\* authentication page 0 announcing lpi and length
MkBlob(len, on, idType, lpi, length) ==
    [len |-> len,
     valid |-> Flags(on),
     BasicID0 |-> BasicIdBlock(idType, SampleUasId),
     BasicID1 |-> BasicIdBlock(idType, SampleUasId),
     Location |-> LocationBlock(PyFloat(3776), PyFloat(-12250)),
     Auth |-> [q \in 0..(NAuthPages - 1) |-> AuthPageBlock(q, lpi, length)],
     SelfID |-> [DescType |-> 0, Desc |-> Pad(<<82, 101, 99>>, DescLen)],
     System |-> SystemBlock(PyFloat(3777), PyFloat(-12249)),
     OperatorID |-> [OperatorIdType |-> 0, id |-> Pad(SampleOpId, OperatorIDLen)]]

\* the blobs of the decoder's specification
BlobTable ==
    <<MkBlob(MinBlobLen, {892, 894}, 1, 0, 0),
      MkBlob(MinBlobLen, {892, 894, 895, 896}, 1, 1, 20),
      MkBlob(MinBlobLen, {892, 894, 895, 896, 897}, 1, 2, 40),
      MkBlob(MinBlobLen, {892, 894, 896}, 1, 1, 20),
      MkBlob(MinBlobLen, {895, 896, 897, 898}, 1, 3, 70),
      MkBlob(MinBlobLen, {892, 897}, 0, 2, 40),
      MkBlob(900, {892, 894, 895, 896}, 1, 1, 20),
      MkBlob(MinBlobLen, {892, 894, 912, 913, 895, 897}, 1, 2, 41),
      MkBlob(MinBlobLen, {892, 894, 895, 908, 909, 910}, 1, 0, 17),
      [MkBlob(MinBlobLen, {892, 894, 912}, 1, 0, 0) EXCEPT
          !.Location.Latitude = PyFloat(0), !.Location.Longitude = PyFloat(20000),
          !.System.OperatorLatitude = PyFloat(-9500),
          !.System.OperatorLongitude = PyFloat(0)],
      [MkBlob(MinBlobLen, {892, 894, 896}, 1, 1, 20) EXCEPT
          !.Location.Latitude = PyFloat(0)],
      [MkBlob(MinBlobLen, {892, 893, 894, 912, 895, 896}, 1, 1, 20) EXCEPT
          !.BasicID1 = BasicIdBlock(2, SampleOpId)],
      [MkBlob(MinBlobLen, {892, 894}, 1, 0, 0) EXCEPT
          !.valid[893] = 2, !.valid[895] = 3, !.valid[911] = 128,
          !.valid[912] = 255, !.valid[913] = 2]>>

-----------------------------------------------------------------------------
(* The decoder called blob after blob, as parse_sensor_data calls it *)

MaxDecodes == 4

InitGlobals ==
    /\ LastPageIndex = <<>>
    /\ Length = <<>>
    /\ AuthValid = AuthValidInit

\* no decode has been recorded
DecodeIdle ==
    /\ last_blob = 0
    /\ last_result = [err |-> "", pl |-> EmptyDict, pages |-> EmptyDict]
    /\ decoded = {}

\* no translator run is under way
XlateIdle ==
    /\ x_message = EmptyDict
    /\ x_config = EmptyDict
    /\ x_data = None
    /\ x_event = None
    /\ x_op_event = None
    /\ x_pc = "idle"

\* no framer run is under way
FrameIdle ==
    /\ f_message = [topic |-> <<>>, payload |-> [enc |-> "nonbytes", text |-> <<>>]]
    /\ f_text = [err |-> "", none |-> TRUE, ret |-> <<>>]
    /\ f_result = [err |-> "", framed |-> <<>>, queued |-> <<>>]
    /\ f_pc = "idle"

\* the workers have been made and have handled nothing
WorkersIdle ==
    /\ mqtt_state = "running"
    /\ rid_state = "running"
    /\ sensor_positions = EmptyDict
    /\ net_queue = <<>>
    /\ tx_queue = <<>>
    /\ m_log = <<>>
    /\ m_last = [msg |-> 0, err |-> "", framed |-> <<>>, queued |-> <<>>,
                 handlers |-> <<>>, before |-> EmptyDict]
    /\ r_log = <<>>

InitDecode ==
    /\ InitGlobals
    /\ DecodeIdle
    /\ XlateIdle
    /\ w_config = EmptyDict
    /\ WorkersIdle
    /\ FrameIdle

\* what a decode gave, without the globals
Outcome(r) == [err |-> r.err, pl |-> r.pl, pages |-> r.pages]

\* the state after the decode of blob i gave r
Decode(i, r) ==
    /\ Cardinality(decoded) < MaxDecodes
    /\ LastPageIndex' = r.LastPageIndex
    /\ Length' = r.Length
    /\ AuthValid' = r.AuthValid
    /\ last_blob' = i
    /\ last_result' = Outcome(r)
    /\ decoded' = decoded \cup {<<i, Outcome(r)>>}
    /\ UNCHANGED <<xlateVars, workerVars, logVars, frameVars>>

\* one call of decode_valid_blocks + parse_payload on blob i
DecodeCall(i) == Decode(i, DecodeBlob(BlobTable[i], AuthValid, LastPageIndex, Length))

NextDecode == \E i \in DOMAIN BlobTable : DecodeCall(i)

SpecDecode == InitDecode /\ [][NextDecode]_vars

-----------------------------------------------------------------------------
(* The translator called as the tests call it: parse_sensor_data on a      *)
(* framed data message, then rid_uas_to_cot_xml on what it returned        *)

\* "S1", "WiFi", "7A:60", "test"
SensorS1 == <<83, 49>>
TypeWiFi == <<87, 105, 70, 105>>
Mac7A60 == <<55, 65, 58, 54, 48>>
TopicTest == <<116, 101, 115, 116>>

B64(blob) == [t |-> "b64", v |-> blob]

\* the data field of a message: the envelope fields around the blob
EnvelopeFull(blob) ==
    ("UASdata" :> B64(blob)) @@ ("sensor_id" :> PyStr(SensorS1)) @@ ("RSSI" :> PyInt(-85))
    @@ ("channel" :> PyInt(6)) @@ ("timestamp" :> PyInt(17356)) @@ ("MAC address" :> PyStr(Mac7A60))
    @@ ("type" :> PyStr(TypeWiFi))

EnvelopeNoIds(blob) ==
    ("UASdata" :> B64(blob)) @@ ("RSSI" :> PyInt(-91)) @@ ("channel" :> PyInt(0))

EnvelopeBare(blob) == ("UASdata" :> B64(blob))

Envelopes(blob) == {EnvelopeFull(blob), EnvelopeNoIds(blob), EnvelopeBare(blob)}

\* a blob with the location zeroed: no fix
NoFix(blob) == [blob EXCEPT !.Location.Latitude = PyFloat(0)]

XBlobs ==
    {MkBlob(MinBlobLen, {892, 894}, 1, 0, 0),
     MkBlob(MinBlobLen, {892, 894, 912, 913}, 1, 0, 0),
     MkBlob(MinBlobLen, {892, 894}, 0, 0, 0),
     MkBlob(MinBlobLen, {893, 894}, 0, 0, 0),
     MkBlob(MinBlobLen, {894}, 1, 0, 0),
     MkBlob(MinBlobLen, {892}, 1, 0, 0),
     NoFix(MkBlob(MinBlobLen, {892, 894}, 1, 0, 0)),
     MkBlob(MinBlobLen, {892, 894, 912}, 2, 0, 0),
     BlobTable[10],
     MkBlob(MinBlobLen, {892, 912}, 1, 0, 0),
     [MkBlob(MinBlobLen, {892, 894, 912}, 1, 0, 0) EXCEPT
         !.Location.AltitudeGeo = PyFloat(-100000),
         !.System.OperatorAltitudeGeo = PyFloat(4000000)]}

XProtocols == {PyStr(<<49, 46, 48>>), PyFloat(100), PyStr(<<50, 46, 48>>)}

XMessages ==
    {[protocol |-> pr, data |-> PyDict(env), topic |-> PyStr(TopicTest)] :
        pr \in XProtocols, env \in UNION {Envelopes(b) : b \in XBlobs}}

\* the configuration of the tests: COT_STALE "600", COT_HOST_ID, COT_ACCESS
TestConfig ==
    [COT_STALE |-> <<54, 48, 48>>, COT_HOST_ID |-> "test_host", COT_ACCESS |-> "test_access"]

XConfigs == {EmptyDict, TestConfig, [UAS_COT_TYPE |-> "a-h-A"]}

InitXlate ==
    /\ InitGlobals
    /\ DecodeIdle
    /\ x_message \in XMessages
    /\ x_config \in XConfigs
    /\ x_data = None
    /\ x_event = None
    /\ x_op_event = None
    /\ x_pc = "parse"
    /\ w_config = EmptyDict
    /\ WorkersIdle
    /\ FrameIdle

\* the state after parse_sensor_data gave r
XParsed(r) ==
    /\ x_pc = "parse"
    /\ x_data' = r.ret
    /\ x_pc' = IF r.err # "" THEN "raised"
               ELSE IF r.ret = None THEN "done" ELSE "translate"
    /\ LastPageIndex' = r.LastPageIndex
    /\ Length' = r.Length
    /\ AuthValid' = r.AuthValid
    /\ UNCHANGED <<x_message, x_config, x_event, x_op_event, decodeVars, workerVars, logVars,
                   frameVars>>

\* parsed_data = dronecot.functions.parse_sensor_data(sample_data)
XParse == XParsed(parse_sensor_data(x_message, AuthValid, LastPageIndex, Length))

\* cot_xml = dronecot.functions.rid_uas_to_cot_xml(parsed_data, sample_config)
XTranslate ==
    /\ x_pc = "translate"
    /\ x_event' = rid_uas_to_cot_xml(x_data.v, x_config)
    /\ x_pc' = "done"
    /\ UNCHANGED <<x_message, x_config, x_data, x_op_event, globalVars, decodeVars,
                   workerVars, logVars, frameVars>>

\* the second function of cot_funcs called on the same record:
\* rid_op_to_cot_xml(data, config)
XTranslateOp ==
    /\ x_pc = "done"
    /\ x_data # None
    /\ x_op_event' = rid_op_to_cot_xml(x_data.v, x_config)
    /\ x_pc' = "both"
    /\ UNCHANGED <<x_message, x_config, x_data, x_event, globalVars, decodeVars,
                   workerVars, logVars, frameVars>>

NextXlate == XParse \/ XTranslate \/ XTranslateOp

SpecXlate == InitXlate /\ [][NextXlate]_vars

-----------------------------------------------------------------------------
(* str.find and str.split on sequences *)

\* sub occurs in s from the 1-based place i on
StartsAt(s, sub, i) ==
    /\ i + Len(sub) - 1 <= Len(s)
    /\ \A j \in 1..Len(sub) : s[i + j - 1] = sub[j]

\* the 1-based places of s where sub occurs
Hits(s, sub) == {i \in 1..Len(s) : StartsAt(s, sub, i)}

\* the least member of a non-empty set of numbers
Least(S) == CHOOSE i \in S : \A j \in S : i <= j

\* s.find(sub): the 0-based place of the first occurrence, -1 when there is none
Find(s, sub) == IF Hits(s, sub) = {} THEN -1 ELSE Least(Hits(s, sub)) - 1

RECURSIVE Split(_, _)
\* s.split(sep) for a separator of one character
Split(s, sep) ==
    IF Find(s, <<sep>>) = -1 THEN <<s>>
    ELSE <<SubSeq(s, 1, Find(s, <<sep>>))>>
         \o Split(SubSeq(s, Find(s, <<sep>>) + 2, Len(s)), sep)

\* d without the key k: "del d[k]"
Without(d, k) == [x \in (DOMAIN d) \ {k} |-> d[x]]

-----------------------------------------------------------------------------
(* The text of a payload.  A text is a sequence of tokens: the braces "{"  *)
(* and "}", a member of an object ("m": one "key": value pair with the     *)
(* comma that separates it, its value held decoded), a line feed ("LF"),   *)
(* a NUL, and "x" for text that is no JSON.  A payload is its encoding     *)
(* with its text: "text" for UTF-8 bytes, "lzma" for LZMA-compressed       *)
(* UTF-8 bytes, "corrupt" for bytes that are neither, "nonbytes" for a     *)
(* payload that is no bytes object.                                        *)

Tok(c) == [c |-> c, key |-> "", val |-> None]
LBrace == Tok("{")
RBrace == Tok("}")
LF == Tok("LF")
NUL == Tok("NUL")
Junk == Tok("x")
Member(k, v) == [c |-> "m", key |-> k, val |-> v]

\* the text of the JSON object with the members ms
Obj(ms) == <<LBrace>> \o ms \o <<RBrace>>

RECURSIVE Join(_)
\* the text of the objects with the member lists objs, one after the other
\* with nothing in between
Join(objs) == IF Len(objs) = 0 THEN <<>> ELSE Obj(Head(objs)) \o Join(Tail(objs))

\* the characters of a text, token by token
Chars(text) == [i \in DOMAIN text |-> text[i].c]

\* "}{"
Boundary == <<"}", "{">>

\* the text without its line feeds: the white space json.loads skips
RECURSIVE SkipSpace(_)
SkipSpace(text) ==
    IF Len(text) = 0 THEN <<>>
    ELSE IF Head(text).c = "LF" THEN SkipSpace(Tail(text))
    ELSE <<Head(text)>> \o SkipSpace(Tail(text))

\* the dict of the members ms, a later member winning over an earlier one
Members(ms) ==
    [k \in {ms[i].key : i \in DOMAIN ms} |->
        ms[CHOOSE i \in DOMAIN ms :
              ms[i].key = k /\ \A j \in DOMAIN ms : ms[j].key = k => j <= i].val]

\* json.loads of a text t free of white space: the dict of an object, or
\* JSONDecodeError
LoadObject(t) ==
    IF /\ Len(t) >= 2
       /\ t[1].c = "{"
       /\ t[Len(t)].c = "}"
       /\ \A i \in 2..(Len(t) - 1) : t[i].c = "m"
    THEN [err |-> "", obj |-> Members(SubSeq(t, 2, Len(t) - 1))]
    ELSE [err |-> "JSONDecodeError", obj |-> EmptyDict]

json_loads(text) == LoadObject(SkipSpace(text))

-----------------------------------------------------------------------------
(* classes.py: MQTTWorker.  The handling of one inbound message works on a *)
(* record st: err the exception raised so far ("" for none), positions the *)
(* cache, queue the records put on the queue, framed the objects           *)
(* json.loads has returned, and the decoder's globals.                     *)

\* "position"
PositionWord == <<112, 111, 115, 105, 116, 105, 111, 110>>

\* "/"
Slash == 47

\* "1.0"
Protocol10 == <<49, 46, 48>>

\* the payload without its last character
DropLast(text) == SubSeq(text, 1, Len(text) - 1)

\* decode_payload made to strip a second trailing character of the kind it
\* strips
decode_payload_stripping_twice(payload) ==
    CASE payload.enc \in {"text", "lzma"} ->
           IF Len(payload.text) = 0
           THEN [err |-> "TypeError", none |-> FALSE, ret |-> <<>>]
           ELSE [err |-> "", none |-> FALSE,
                 ret |-> IF payload.text[Len(payload.text)].c
                              \in (IF payload.enc = "text" THEN {"NUL", "LF"} ELSE {"NUL"})
                         THEN IF /\ Len(payload.text) > 1
                                 /\ payload.text[Len(payload.text) - 1].c
                                      \in (IF payload.enc = "text" THEN {"NUL", "LF"}
                                           ELSE {"NUL"})
                              THEN DropLast(DropLast(payload.text))
                              ELSE DropLast(payload.text)
                         ELSE payload.text]
      [] OTHER -> [err |-> "", none |-> TRUE, ret |-> <<>>]

\* decode_payload(payload): ret is the text it returns, none says that it
\* returned None, err is the exception it raised
decode_payload(payload) ==
    CASE payload.enc = "text" ->
           IF Len(payload.text) = 0
           THEN [err |-> "TypeError", none |-> FALSE, ret |-> <<>>]
           ELSE [err |-> "", none |-> FALSE,
                 ret |-> IF payload.text[Len(payload.text)].c \in {"NUL", "LF"}
                         THEN DropLast(payload.text) ELSE payload.text]
      [] payload.enc = "lzma" ->
           IF Len(payload.text) = 0
           THEN [err |-> "TypeError", none |-> FALSE, ret |-> <<>>]
           ELSE [err |-> "", none |-> FALSE,
                 ret |-> IF payload.text[Len(payload.text)].c = "NUL"
                         THEN DropLast(payload.text) ELSE payload.text]
      [] OTHER -> [err |-> "", none |-> TRUE, ret |-> <<>>]

\* "position = self.sensor_positions.get(sensor) or {}"
CachedPosition(positions, sensor) ==
    IF sensor \in DOMAIN positions THEN positions[sensor] ELSE EmptyDict

\* a position handler that merges the report into the entry it finds: a field
\* the report lacks keeps the value of an earlier report
handle_sensor_position_merging(st, message) ==
    IF Len(Split(message["topic"].v, Slash)) < 3
    THEN [st EXCEPT !.err = "IndexError"]
    ELSE [st EXCEPT !.positions =
            Merge(@, (Split(message["topic"].v, Slash)[3] :>
              Merge(Merge([k \in {"lat", "lon", "altHAE", "altMSL", "alt", "track",
                                  "magtrack", "speed"} |-> None],
                          CachedPosition(st.positions, Split(message["topic"].v, Slash)[3])),
                    [k \in DOMAIN message \cap {"lat", "lon", "altHAE", "altMSL", "alt",
                                                "track", "magtrack", "speed"} |-> message[k]]
                    @@ [sensor_id |-> PyStr(Split(message["topic"].v, Slash)[3])])))]

\* handle_sensor_position(message)
handle_sensor_position(st, message) ==
    IF Len(Split(message["topic"].v, Slash)) < 3
    THEN [st EXCEPT !.err = "IndexError"]
    ELSE [st EXCEPT !.positions =
            Merge(@, (Split(message["topic"].v, Slash)[3] :>
              [sensor_id |-> PyStr(Split(message["topic"].v, Slash)[3]),
               lat |-> Get(message, "lat"),
               lon |-> Get(message, "lon"),
               altHAE |-> Get(message, "altHAE"),
               altMSL |-> Get(message, "altMSL"),
               alt |-> Get(message, "alt"),
               track |-> Get(message, "track"),
               magtrack |-> Get(message, "magtrack"),
               speed |-> Get(message, "speed")]))]

\* 'del data["UASdata"]; pl["data"] = data; pl["topic"] = message["topic"];
\* pl["extra"] = message.get("extra", {}); await self.put_queue(pl)' on what
\* the decode of the blob gave (r); a decode that raised leaves only the
\* decoder's globals changed
QueueRecord(st, message, r) ==
    [st EXCEPT
       !.err = r.err,
       !.LastPageIndex = r.LastPageIndex,
       !.Length = r.Length,
       !.AuthValid = r.AuthValid,
       !.queue = IF r.err # "" THEN @
                 ELSE Append(@, Merge(r.pl,
                        [data |-> PyDict(Without(message["data"].v, "UASdata")),
                         topic |-> message["topic"],
                         extra |-> GetDefault(message, "extra", PyDict(EmptyDict))]))]

\* base64.b64decode(uasdata) and the two calls of the decoder
DecodeUasData(st, message, uasdata) ==
    IF uasdata.t # "b64" THEN [st EXCEPT !.err = "binascii.Error"]
    ELSE QueueRecord(st, message,
            DecodeBlob(uasdata.v, st.AuthValid, st.LastPageIndex, st.Length))

\* handle_sensor_data(message)
handle_sensor_data(st, message) ==
    IF ~Truthy(Get(message, "protocol")) \/ StrOf(Get(message, "protocol")) # Protocol10
    THEN st
    ELSE IF ~Truthy(GetDefault(message, "data", PyDict(EmptyDict))) THEN st
    ELSE IF message["data"].t # "dict" THEN [st EXCEPT !.err = "AttributeError"]
    ELSE IF ~Truthy(Get(message["data"].v, "UASdata")) THEN st
    ELSE DecodeUasData(st, message, message["data"].v["UASdata"])

\* a status handler that merges the message into the cached entry itself
\* ("position.update(message)") and queues that entry
handle_sensor_status_caching(st, message) ==
    IF ~Truthy(Get(message, "status")) THEN st
    ELSE IF Len(Split(message["topic"].v, Slash)) < 3
    THEN [st EXCEPT !.err = "IndexError"]
    ELSE [st EXCEPT
            !.positions =
               IF Split(message["topic"].v, Slash)[3] \in DOMAIN @
               THEN Merge(@, (Split(message["topic"].v, Slash)[3] :>
                        Merge(Without(Merge(@[Split(message["topic"].v, Slash)[3]],
                                            message), "topic"),
                              [sensor_id |-> PyStr(Split(message["topic"].v, Slash)[3])])))
               ELSE @,
            !.queue =
               Append(@, Merge(Without(Merge(CachedPosition(st.positions,
                                                 Split(message["topic"].v, Slash)[3]),
                                             message), "topic"),
                               [sensor_id |-> PyStr(Split(message["topic"].v, Slash)[3])]))]

\* handle_sensor_status(message)
handle_sensor_status(st, message) ==
    IF ~Truthy(Get(message, "status")) THEN st
    ELSE IF Len(Split(message["topic"].v, Slash)) < 3
    THEN [st EXCEPT !.err = "IndexError"]
    ELSE [st EXCEPT !.queue =
            Append(@, Merge(Without(Merge(CachedPosition(st.positions,
                                              Split(message["topic"].v, Slash)[3]),
                                          message), "topic"),
                            [sensor_id |-> PyStr(Split(message["topic"].v, Slash)[3])]))]

\* the if/elif chain of process_payload
Dispatch(st, json_obj, topic) ==
    IF Find(topic, PositionWord) # -1
    THEN handle_sensor_position([st EXCEPT !.handlers = Append(@, "position")], json_obj)
    ELSE IF Truthy(Get(json_obj, "data"))
    THEN handle_sensor_data([st EXCEPT !.handlers = Append(@, "data")], json_obj)
    ELSE IF Truthy(Get(json_obj, "status"))
    THEN handle_sensor_status([st EXCEPT !.handlers = Append(@, "status")], json_obj)
    ELSE [st EXCEPT !.handlers = Append(@, "none")]

\* a loop body that passes over an object json.loads fails on
Loaded_skipping_malformed(st, parsed, topic) ==
    IF parsed.err # "" THEN st
    ELSE Dispatch([st EXCEPT !.framed =
                      Append(@, Merge(parsed.obj, [topic |-> PyStr(topic)]))],
                  Merge(parsed.obj, [topic |-> PyStr(topic)]), topic)

\* 'json_obj = json.loads(message_payload); json_obj["topic"] = topic' and the
\* dispatch, parsed being what json.loads gave
Loaded(st, parsed, topic) ==
    IF parsed.err # "" THEN [st EXCEPT !.err = parsed.err]
    ELSE Dispatch([st EXCEPT !.framed =
                      Append(@, Merge(parsed.obj, [topic |-> PyStr(topic)]))],
                  Merge(parsed.obj, [topic |-> PyStr(topic)]), topic)

RECURSIVE process_payload(_, _, _)

\* the loop goes round again unless the body raised
NextRound(payload, topic, st) ==
    IF st.err # "" THEN st ELSE process_payload(payload, topic, st)

\* the body of the loop of process_payload, pos being what payload.find("}{")
\* gave
LoopBody(payload, topic, st, pos) ==
    IF pos # -1
    THEN NextRound(SubSeq(payload, pos + 2, Len(payload)), topic,
                   Loaded(st, json_loads(SubSeq(payload, 1, pos + 1)), topic))
    ELSE Loaded(st, json_loads(payload), topic)

\* process_payload(payload, topic)
process_payload(payload, topic, st) ==
    LoopBody(payload, topic, st, Find(Chars(payload), Boundary))

\* parse_message after decode_payload gave d
PayloadDecoded(message, st, d) ==
    IF d.err # "" THEN [st EXCEPT !.err = d.err]
    ELSE IF d.none \/ Len(d.ret) = 0 THEN st
    ELSE process_payload(d.ret, message.topic, st)

\* handle_data(data) and parse_message(message) of MQTTWorker
parse_message(message, st) ==
    IF message.payload.enc = "nonbytes" THEN st
    ELSE PayloadDecoded(message, st, decode_payload(message.payload))

-----------------------------------------------------------------------------
(* functions.py: sensor_status_to_cot and xml_to_cot; classes.py: RIDWorker *)

\* what the GPS lookup of sensor_status_to_cot can come to
GpsOutcomes == {"fix", "empty", "timeout", "error"}

\* "SNSTAC-CUAS."
SensorUidPrefix == <<83, 78, 83, 84, 65, 67, 45, 67, 85, 65, 83, 46>>

\* the event sensor_status_to_cot builds once it has a latitude and a longitude
SensorStatusEvent(data, cfg, cot) ==
    Element(
      [uid |-> cot.uid, type |-> cot.type, how |-> cot.how, stale |-> cot.stale,
       access |-> GetDefault(cfg, "COT_ACCESS", PYTAK_DEFAULT_COT_ACCESS),
       point |-> cot.point,
       contact |-> [callsign |-> GetDefault(data, "sensor_id",
                                   GetDefault(cfg, "SENSOR_ID", DEFAULT_SENSOR_ID))],
       track |-> [speed |-> StrOf(GetDefault(data, "SpeedHorizontal", PyInt(0)))],
       dronecot |-> [cot_host_id |-> GetDefault(cfg, "COT_HOST_ID", PYTAK_DEFAULT_HOST_ID),
                     sensor_id |-> GetDefault(data, "sensor_id",
                                     GetDefault(cfg, "SENSOR_ID", DEFAULT_SENSOR_ID))]])

\* a translator that, lacking a latitude or a longitude, places the sensor
\* where the GPS lookup has its fix
sensor_status_at_gps_fix(data, cfg, gps) ==
    IF (Get(data, "lat") = None \/ Get(data, "lon") = None) /\ gps # "fix"
    THEN None
    ELSE SensorStatusEvent(data, cfg,
           gen_cot_xml(GetDefault(data, "lat", PyFloat(3770)),
               GetDefault(data, "lon", PyFloat(-12240)),
               None, None, Get(data, "altHAE"),
               SensorUidPrefix \o StrOf(GetDefault(data, "sensor_id",
                                   GetDefault(cfg, "SENSOR_ID", DEFAULT_SENSOR_ID))),
               GetDefault(cfg, "SENSOR_COT_TYPE", DEFAULT_SENSOR_COT_TYPE),
               ParseInt(GetDefault(cfg, "COT_STALE", PYTAK_DEFAULT_COT_STALE))))

\* sensor_status_to_cot(data, config), gps being what the GPS lookup comes to
sensor_status_to_cot(data, cfg, gps) ==
    IF Get(data, "lat") = None \/ Get(data, "lon") = None
    THEN IF gps # "fix" THEN None ELSE None
    ELSE SensorStatusEvent(data, cfg,
           gen_cot_xml(PyStr(StrOf(Get(data, "lat"))), PyStr(StrOf(Get(data, "lon"))),
               PyStr(StrOf(GetDefault(data, "HorizAccuracy", PyStr(UnknownValue)))),
               PyStr(StrOf(GetDefault(data, "VertAccuracy", PyStr(UnknownValue)))),
               Get(data, "altHAE"),
               SensorUidPrefix \o StrOf(GetDefault(data, "sensor_id",
                                   GetDefault(cfg, "SENSOR_ID", DEFAULT_SENSOR_ID))),
               GetDefault(cfg, "SENSOR_COT_TYPE", DEFAULT_SENSOR_COT_TYPE),
               ParseInt(GetDefault(cfg, "COT_STALE", PYTAK_DEFAULT_COT_STALE))))

\* xml_to_cot: the XML declaration and the serialized element, or None
xml_to_cot(cot) ==
    IF cot = None THEN None ELSE [t |-> "bytes", v |-> <<"<?xml", cot.v>>]

\* '"status" in data and "position" not in data.get("topic", "")'
IsStatusRecord(data) ==
    /\ "status" \in DOMAIN data
    /\ Find(StrOf(GetDefault(data, "topic", PyStr(<<>>))), PositionWord) = -1

\* RIDWorker.handle_data(data): the events it puts on the egress queue, and
\* the exception it raises.  The data branch raises at its first call: the
\* package has no attribute cot_to_xml.
handle_data(data, cfg, gps) ==
    IF IsStatusRecord(data)
    THEN [err |-> "", events |-> <<xml_to_cot(sensor_status_to_cot(data, cfg, gps))>>]
    ELSE [err |-> "AttributeError", events |-> <<>>]

-----------------------------------------------------------------------------
(* The inbound messages of the pipeline *)

\* "uas/data/S1", "uas/status/S1", "uas/position/S1", "uas/position"
TopicData == <<117, 97, 115, 47, 100, 97, 116, 97, 47, 83, 49>>
TopicStatus == <<117, 97, 115, 47, 115, 116, 97, 116, 117, 115, 47, 83, 49>>
TopicPosition == <<117, 97, 115, 47, 112, 111, 115, 105, 116, 105, 111, 110, 47, 83, 49>>
TopicShort == <<117, 97, 115, 47, 112, 111, 115, 105, 116, 105, 111, 110>>

\* the members of
\* {"protocol": <protocol>, "data": {"UASdata": <base64 of blob>, "RSSI": -85}}
DataMembers(protocol, blob) ==
    <<Member("protocol", protocol),
      Member("data", PyDict(("UASdata" :> B64(blob)) @@ ("RSSI" :> PyInt(-85))))>>

DataObj(protocol, blob) == Obj(DataMembers(protocol, blob))

\* {"lat": 37.7, "lon": -122.4, "altHAE": 10.0}
PositionObj ==
    Obj(<<Member("lat", PyFloat(3770)), Member("lon", PyFloat(-12240)),
          Member("altHAE", PyFloat(1000))>>)

\* {"status": {"model": "X1", "status": "online"}}
StatusObj ==
    Obj(<<Member("status", PyDict([model |-> PyStr(<<88, 49>>),
                                   status |-> PyStr(<<111, 110, 108, 105, 110, 101>>)]))>>)

\* {"a": 1} and {"b": 2}
MembersA == <<Member("a", PyInt(1))>>
MembersB == <<Member("b", PyInt(2))>>
ObjA == Obj(MembersA)
ObjB == Obj(MembersB)

GoodBlob == MkBlob(MinBlobLen, {892, 894}, 1, 0, 0)
SystemBlob == MkBlob(MinBlobLen, {892, 894, 912, 913}, 1, 0, 0)
ShortBlob == MkBlob(900, {892, 894}, 1, 0, 0)

Msg(topic, enc, text) == [topic |-> topic, payload |-> [enc |-> enc, text |-> text]]

MsgTable ==
    <<Msg(TopicData, "text", DataObj(PyStr(Protocol10), GoodBlob)),
      Msg(TopicData, "lzma", DataObj(PyFloat(100), SystemBlob) \o <<NUL>>),
      Msg(TopicPosition, "text", PositionObj \o <<LF>>),
      Msg(TopicStatus, "text", StatusObj),
      Msg(TopicTest, "text", ObjA \o ObjB),
      Msg(TopicData, "text", <<LBrace, Member("a", PyInt(1)), Junk>>),
      Msg(TopicData, "corrupt", <<>>),
      Msg(TopicData, "text", DataObj(PyStr(Protocol10), ShortBlob)),
      Msg(TopicData, "text", DataObj(PyStr(Protocol10), ShortBlob) \o ObjB),
      Msg(TopicData, "text", DataObj(PyStr(<<50, 46, 48>>), GoodBlob)),
      Msg(TopicData, "text", ObjA \o <<Junk>> \o ObjB),
      Msg(TopicData, "nonbytes", <<>>),
      Msg(TopicShort, "text", PositionObj),
      \* {"lat": 38.0, "lon": -121.0, "speed": 1.5} on "uas/position/S1"
      Msg(TopicPosition, "text",
          Obj(<<Member("lat", PyFloat(3800)), Member("lon", PyFloat(-12100)),
                Member("speed", PyFloat(150))>>)),
      \* a position with a status and a data field on "uas/position/S2"
      Msg([TopicPosition EXCEPT ![15] = 50], "text",
          Obj(<<Member("lat", PyFloat(4000)), Member("lon", PyFloat(-10500)),
                Member("status", PyDict([model |-> PyStr(<<88, 49>>)]))>>
              \o DataMembers(PyStr(Protocol10), GoodBlob))),
      \* {"data": {}, "status": {"model": "X1"}} on "uas/status/S1"
      Msg(TopicStatus, "text",
          Obj(<<Member("data", PyDict(EmptyDict)),
                Member("status", PyDict([model |-> PyStr(<<88, 49>>)]))>>)),
      \* {"protocol": "1.0", "data": {"UASdata": "abc"}} before {"b": 2}
      Msg(TopicData, "text",
          Obj(<<Member("protocol", PyStr(Protocol10)),
                Member("data", PyDict([UASdata |-> PyStr(<<97, 98, 99>>)]))>>) \o ObjB),
      \* {"protocol": "1.0", "data": {"RSSI": -85}} before a status object
      Msg(TopicData, "text",
          Obj(<<Member("protocol", PyStr(Protocol10)),
                Member("data", PyDict([RSSI |-> PyInt(-85)]))>>) \o StatusObj),
      \* a data object before a status object
      Msg(TopicData, "text", DataObj(PyStr(Protocol10), GoodBlob) \o StatusObj)>>

-----------------------------------------------------------------------------
(* The two workers *)

MaxMessages == 3

Init ==
    /\ InitGlobals
    /\ DecodeIdle
    /\ XlateIdle
    /\ w_config \in {EmptyDict, TestConfig}
    /\ WorkersIdle
    /\ FrameIdle

\* the state the handling of an inbound message starts from
Start ==
    [err |-> "", positions |-> sensor_positions, queue |-> <<>>, framed |-> <<>>,
     handlers |-> <<>>,
     LastPageIndex |-> LastPageIndex, Length |-> Length, AuthValid |-> AuthValid]

\* the state after the handling of message i ended as st says
Handled(i, st) ==
    /\ mqtt_state' = IF st.err = "" THEN "running" ELSE st.err
    /\ sensor_positions' = st.positions
    /\ net_queue' = net_queue \o st.queue
    /\ LastPageIndex' = st.LastPageIndex
    /\ Length' = st.Length
    /\ AuthValid' = st.AuthValid
    /\ m_log' = Append(m_log, [msg |-> i, err |-> st.err, queued |-> Len(st.queue)])
    /\ m_last' = [msg |-> i, err |-> st.err, framed |-> st.framed, queued |-> st.queue,
                  handlers |-> st.handlers, before |-> sensor_positions]
    /\ UNCHANGED <<w_config, rid_state, tx_queue, r_log, decodeVars, xlateVars, frameVars>>

\* MQTTWorker.run: "async for message in messages: await self.handle_data(message)"
\* for the inbound message i; an exception ends the worker
Receive(i) ==
    /\ mqtt_state = "running"
    /\ Len(m_log) < MaxMessages
    /\ Handled(i, parse_message(MsgTable[i], Start))

\* the state after handle_data of the record at the head of the queue ended as h says
Rendered(h) ==
    /\ rid_state' = IF h.err = "" THEN "running" ELSE h.err
    /\ net_queue' = Tail(net_queue)
    /\ tx_queue' = tx_queue \o h.events
    /\ r_log' = Append(r_log, [data |-> Head(net_queue), err |-> h.err, events |-> h.events])
    /\ UNCHANGED <<w_config, mqtt_state, sensor_positions, m_log, m_last,
                   globalVars, decodeVars, xlateVars, frameVars>>

\* RIDWorker.run: "data = await self.net_queue.get(); if not data: continue;
\* await self.handle_data(data)"; an exception ends the worker
Render ==
    /\ rid_state = "running"
    /\ Len(net_queue) > 0
    /\ \E gps \in GpsOutcomes :
         Rendered(IF DOMAIN Head(net_queue) = {}
                  THEN [err |-> "", events |-> <<>>]
                  ELSE handle_data(Head(net_queue), w_config, gps))

Next == (\E i \in DOMAIN MsgTable : Receive(i)) \/ Render

Spec == Init /\ [][Next]_vars

\* the two workers with RIDWorker.run scheduled for as long as a record waits
\* on the queue and the worker has not ended
SpecLive == Spec /\ WF_vars(Render)

-----------------------------------------------------------------------------
(* parse_message called on one inbound message: the payload is decoded,    *)
(* framed and dispatched                                                   *)

\* the member lists of the objects of a payload
FObjectLists ==
    {<<MembersA>>, <<MembersB>>, <<MembersA, MembersB>>,
     <<SubSeq(StatusObj, 2, Len(StatusObj) - 1)>>}

\* what follows the last object of a payload
FTrails == {<<>>, <<NUL>>, <<LF>>, <<NUL, NUL>>, <<LF, LF>>, <<LF, NUL>>, <<NUL, LF>>}

\* "{x}": an object that is no JSON
Broken == <<LBrace, Junk, RBrace>>

\* the member lists of {"lat": 37.7, "lon": -122.4, "altHAE": 10.0}, of
\* {"status": {"model": "X1", "status": "online"}} and of
\* {"lat": 38.0, "status": {"model": "X9"}}
Pos1 == SubSeq(PositionObj, 2, Len(PositionObj) - 1)
Stat1 == SubSeq(StatusObj, 2, Len(StatusObj) - 1)
PosStat2 ==
    <<Member("lat", PyFloat(3800)), Member("status", PyDict([model |-> PyStr(<<88, 57>>)]))>>

\* the objects before and after the one that is no JSON
FBefore == {<<>>, <<Pos1>>, <<Stat1>>, <<Pos1, Stat1>>}
FAfter == {<<>>, <<PosStat2>>}

\* the inbound messages of the framer run: objects with something after the
\* last one on "uas/status/S1", and objects around one that is no JSON on
\* "uas/status/S1" and on "uas/position/S1"
FMessages ==
    {Msg(TopicStatus, enc, Join(objs) \o trail) :
        enc \in {"text", "lzma", "corrupt"}, objs \in FObjectLists, trail \in FTrails}
    \cup
    {Msg(topic, "text", Join(b) \o Broken \o Join(a)) :
        topic \in {TopicStatus, TopicPosition}, b \in FBefore, a \in FAfter}

InitFrame ==
    /\ InitGlobals
    /\ DecodeIdle
    /\ XlateIdle
    /\ w_config = EmptyDict
    /\ WorkersIdle
    /\ f_message \in FMessages
    /\ f_text = [err |-> "", none |-> TRUE, ret |-> <<>>]
    /\ f_result = [err |-> "", framed |-> <<>>, queued |-> <<>>]
    /\ f_pc = "parse"

\* the state after parse_message, in which decode_payload gave d, ended as st
\* says
FParsed(d, st) ==
    /\ f_pc = "parse"
    /\ f_text' = d
    /\ f_result' = [err |-> st.err, framed |-> st.framed, queued |-> st.queue]
    /\ f_pc' = "done"
    /\ sensor_positions' = st.positions
    /\ net_queue' = net_queue \o st.queue
    /\ LastPageIndex' = st.LastPageIndex
    /\ Length' = st.Length
    /\ AuthValid' = st.AuthValid
    /\ UNCHANGED <<f_message, w_config, mqtt_state, rid_state, tx_queue, logVars,
                   decodeVars, xlateVars>>

\* await self.parse_message(message)
FParse == FParsed(decode_payload(f_message.payload), parse_message(f_message, Start))

NextFrame == FParse

SpecFrame == InitFrame /\ [][NextFrame]_vars

-----------------------------------------------------------------------------
(* Claims about the decoder *)

\* C8: the record a decode of blob B returns (or the exception it raises)
\* depends only on B: any two decodes of the same blob, whatever was decoded
\* before them, have the same outcome.
C8_DecodeDependsOnlyOnBlob ==
    \A p \in decoded : \A q \in decoded :
        p[1] = q[1] => (p[2].err = q[2].err /\ p[2].pl = q[2].pl)

\* the last decode ran parse_AuthPage on page 0 and on the page that page 0
\* names as the last one, which is not page 0
LastPageDecoded ==
    /\ last_blob # 0
    /\ last_result.err = ""
    /\ 0 \in DOMAIN last_result.pages
    /\ BlobTable[last_blob].Auth[0].LastPageIndex >= 1
    /\ BlobTable[last_blob].Auth[0].LastPageIndex \in DOMAIN last_result.pages

\* C9: in a decode where page 0 is valid and names page p >= 1 as the last
\* page with total length L, and page p is valid, page p adds the first
\* (L - 17) mod 23 bytes of its data area to the record as AuthData, and every
\* valid page between 0 and p adds its full 23 bytes.
C9_LastPageContributesTail ==
    LastPageDecoded =>
        LET b == BlobTable[last_blob]
            p == b.Auth[0].LastPageIndex
            L == b.Auth[0].Length
            pages == last_result.pages
        IN  /\ "AuthData" \in DOMAIN pages[p].pl
            /\ pages[p].pl.AuthData
                 = PyStr(Hex(SubSeq(b.Auth[p].data, 1, (L - 17) % 23)))
            /\ \A q \in 1..(p - 1) :
                 q \in DOMAIN pages =>
                    /\ "AuthData" \in DOMAIN pages[q].pl
                    /\ pages[q].pl.AuthData = PyStr(Hex(SubSeq(b.Auth[q].data, 1, 23)))

\* the last decode had page 0 with lastPageIndex = 2 and length = 40, and
\* page 2 was decoded in the same call
Page2OfLength40Decoded ==
    /\ LastPageDecoded
    /\ BlobTable[last_blob].Auth[0].LastPageIndex = 2
    /\ BlobTable[last_blob].Auth[0].Length = 40

\* C10 as stated: given page 0 with lastPageIndex = 2 and length = 40, and
\* page 2 decoded in the same call, the page-2 authentication data is 23
\* bytes long.
C10_Page2Has23Bytes ==
    Page2OfLength40Decoded => Len(last_result.pages[2].AuthData) = 23

\* C10 as amended: given page 0 with lastPageIndex = 2 and length = 40, and
\* page 2 decoded in the same call, the page-2 authentication data is
\* (40 - 17) mod 23 = 0 bytes long.
C10_Page2HasNoBytes ==
    Page2OfLength40Decoded => Len(last_result.pages[2].AuthData) = 0

C10_Witness == Page2OfLength40Decoded

-----------------------------------------------------------------------------
(* Claims about the workers *)

\* a record with a usable latitude and longitude
HasFix(data) ==
    /\ "Latitude" \in DOMAIN data /\ data["Latitude"].t = "float"
    /\ "Longitude" \in DOMAIN data /\ data["Longitude"].t = "float"

\* a record with a usable operator latitude and longitude
HasOperatorFix(data) ==
    /\ "OperatorLatitude" \in DOMAIN data /\ data["OperatorLatitude"].t = "float"
    /\ "OperatorLongitude" \in DOMAIN data /\ data["OperatorLongitude"].t = "float"

\* C1: for every record RIDWorker has processed that came from a data message
\* whose blob had BasicID0 and Location valid with a usable latitude and
\* longitude, RIDWorker put exactly one UAS event on the egress queue, and
\* one operator event more exactly when the record has a usable operator
\* location.
C1_EventsPerDataRecord ==
    \A k \in DOMAIN r_log :
        ("BasicID" \in DOMAIN r_log[k].data /\ HasFix(r_log[k].data)) =>
            /\ r_log[k].err = ""
            /\ Len(r_log[k].events) = IF HasOperatorFix(r_log[k].data) THEN 2 ELSE 1
            /\ \A e \in DOMAIN r_log[k].events : r_log[k].events[e] # None

\* the member lists the payloads of the model are made of
MemberLists ==
    {MembersA, MembersB,
     DataMembers(PyStr(Protocol10), GoodBlob),
     DataMembers(PyStr(Protocol10), ShortBlob)}

\* the lists of one or two objects
ObjectLists == UNION {[1..n -> MemberLists] : n \in 1..2}

\* the last inbound message was the text of the objects objs, joined by
\* nothing but the boundary "}{"
LastWasJoinOf(objs) ==
    /\ m_last.msg # 0
    /\ MsgTable[m_last.msg].payload.enc = "text"
    /\ MsgTable[m_last.msg].payload.text = Join(objs)

\* C5: for a text payload of n + 1 objects joined by the boundary "}{",
\* process_payload returns, having parsed exactly those n + 1 objects from
\* left to right, each with the topic of the message added.
C5_FramesEveryObject ==
    \A objs \in ObjectLists :
        LastWasJoinOf(objs) =>
            /\ m_last.err = ""
            /\ m_last.framed =
                 [k \in DOMAIN objs |->
                    Merge(Members(objs[k]),
                          [topic |-> PyStr(MsgTable[m_last.msg].topic)])]

\* the payload of message i fails framing: it is text that holds something
\* that is no JSON, or it is neither text nor LZMA
FailsFraming(i) ==
    \/ MsgTable[i].payload.enc = "corrupt"
    \/ /\ MsgTable[i].payload.enc \in {"text", "lzma"}
       /\ \E k \in DOMAIN MsgTable[i].payload.text : MsgTable[i].payload.text[k].c = "x"

\* message i is one well-formed data message of protocol "1.0" around a blob
\* of full length
IsGoodData(i) ==
    /\ MsgTable[i].payload.enc = "text"
    /\ MsgTable[i].payload.text = DataObj(PyStr(Protocol10), GoodBlob)

\* C6: an inbound message that fails framing raises nothing out of the
\* worker's loop, so that the worker goes on to the next message, and every
\* well-formed data message after it puts its record on the queue.
C6_FramingFailureNotFatal ==
    \A k \in DOMAIN m_log :
        FailsFraming(m_log[k].msg) =>
            /\ m_log[k].err = ""
            /\ \A j \in DOMAIN m_log :
                 (j > k /\ IsGoodData(m_log[j].msg)) => m_log[j].queued = 1

\* message i is one data message of protocol "1.0" around a blob shorter
\* than 914 bytes
IsShortData(i) ==
    /\ MsgTable[i].payload.enc = "text"
    /\ MsgTable[i].payload.text = DataObj(PyStr(Protocol10), ShortBlob)

\* C7: a data message whose blob is shorter than 914 bytes puts no record on
\* the queue and raises nothing out of the worker's loop, so that the next
\* inbound message is still processed.
C7_ShortBlobNotFatal ==
    \A k \in DOMAIN m_log :
        IsShortData(m_log[k].msg) => (m_log[k].queued = 0 /\ m_log[k].err = "")

-----------------------------------------------------------------------------
(* Claims about the UAS translator *)

\* the translator run has ended with an event
XEventMade == x_pc = "done" /\ x_event.t = "Element"

\* the blob of the message of the translator run
XBlob == x_message.data.v.UASdata.v

\* the BasicID slot of the blob that the record's BasicID comes from: slot 1
\* when its flag is set, else slot 0
XIdSlot == IF XBlob.valid[893] = 1 THEN XBlob.BasicID1 ELSE XBlob.BasicID0

\* the UAS identifier of the blob as a string: the ASCII text without its NUL
\* padding for IDType 1 and 2, the hexadecimal digits of the 20 bytes otherwise
XIdString ==
    IF XIdSlot.IDType \in {1, 2} THEN RStripNul(XIdSlot.id) ELSE Hex(XIdSlot.id)

\* the translator made an event from a record that holds a BasicID
XEventWithBasicID == XEventMade /\ "BasicID" \in DOMAIN x_data.v

\* C2: every event rid_uas_to_cot_xml returns for a record with a BasicID has
\* the uid "RID.<BasicID>.uas", BasicID being the identifier string, and the
\* type configured as UAS_COT_TYPE, or "a-u-A-M-H-Q" when none is configured.
C2_UasUidAndType ==
    XEventWithBasicID =>
        /\ x_event.v.uid = <<82, 73, 68, 46>> \o XIdString \o <<46, 117, 97, 115>>
        /\ x_event.v.type = IF "UAS_COT_TYPE" \in DOMAIN x_config
                            THEN x_config["UAS_COT_TYPE"] ELSE "a-u-A-M-H-Q"

\* the translator made an event under the configuration of the tests
XTestEventMade == XEventWithBasicID /\ x_config = TestConfig

\* C3: with the configuration of the tests (COT_STALE, COT_HOST_ID and
\* COT_ACCESS only) the event has type "a-n-A-M-H-Q", uid "RID.<BasicID>.uas",
\* the configured access and how "m-g".
C3_TestAssertions ==
    XTestEventMade =>
        /\ x_event.v.type = "a-n-A-M-H-Q"
        /\ x_event.v.uid = <<82, 73, 68, 46>> \o StrOf(x_data.v.BasicID) \o <<46, 117, 97, 115>>
        /\ x_event.v.access = TestConfig.COT_ACCESS
        /\ x_event.v.how = "m-g"

\* the data field of the message of the translator run
XEnvelope == x_message.data.v

\* str() of the envelope's field k, "None" when the envelope has none
XEnvelopeStr(k) == IF k \in DOMAIN XEnvelope THEN StrOf(XEnvelope[k]) ELSE <<78, 111, 110, 101>>

\* C4: in every UAS event the __cuas attributes sensor_id, rssi, channel,
\* timestamp, mac_address and type are those of the envelope's fields
\* sensor_id, RSSI, channel, timestamp, MAC address and type, whatever the blob
\* holds; sensor_id and type are the defaults exactly when the envelope has none.
C4_CuasFromEnvelope ==
    XEventMade =>
        LET cuas == x_event.v.cuas
        IN  /\ cuas.sensor_id = IF "sensor_id" \in DOMAIN XEnvelope
                                THEN XEnvelope["sensor_id"] ELSE DEFAULT_SENSOR_ID
            /\ cuas.rssi = XEnvelopeStr("RSSI")
            /\ cuas.channel = XEnvelopeStr("channel")
            /\ cuas.timestamp = XEnvelopeStr("timestamp")
            /\ cuas.mac_address = XEnvelopeStr("MAC address")
            /\ cuas.type = IF "type" \in DOMAIN XEnvelope
                           THEN StrOf(XEnvelope["type"])
                           ELSE StrOf(DEFAULT_SENSOR_PAYLOAD_TYPE)

\* an event made from a full envelope around a blob whose System block, with a
\* timestamp of its own, was decoded
C4_Witness ==
    /\ XEventMade
    /\ {"sensor_id", "timestamp", "type"} \subseteq DOMAIN XEnvelope
    /\ "TimestampRaw" \in DOMAIN x_data.v

-----------------------------------------------------------------------------
(* Claims about the validity flags and the coordinates the decoder returns *)

\* C11: after a decode that returned a record, authentication page x was
\* decoded exactly when the blob's validity byte at offset 895 + x is 1, for
\* every x in 0..15, pages 14 and 15 (bytes 909 and 910) included.
C11_EveryAuthFlagDecodesItsPage ==
    (last_blob # 0 /\ last_result.err = "") =>
        \A x \in 0..(NAuthPages - 1) :
            (x \in DOMAIN last_result.pages)
                <=> (BlobTable[last_blob].valid[AuthValidBase + x] = 1)

\* the raw coordinate x is exactly 0.0 or outside [-bound, bound]
Unusable(x, bound) == x.t = "float" /\ (x.v = 0 \/ x.v > bound \/ x.v < 0 - bound)

\* the record r holds every field of the Location block but the coordinates
\* as parse_Location returns it for the blob
RestOfLocation(r, blob) ==
    \A k \in DOMAIN parse_Location(blob).pl \ {"Latitude", "Longitude"} :
        k \in DOMAIN r /\ r[k] = parse_Location(blob).pl[k]

\* C12: for every blob of at least 914 bytes with the Location flag set, a
\* raw Latitude (Longitude) of 0.0 or beyond +-90 (+-180) is decoded as
\* not-a-number, the same holds for OperatorLatitude and OperatorLongitude of
\* a valid System block, and the rest of the record is still produced.
C12_UnusableCoordinateIsNaN ==
    \A i \in DOMAIN BlobTable :
        (/\ last_blob = i
         /\ BlobTable[i].len >= MinBlobLen
         /\ BlobTable[i].valid[894] = 1) =>
        /\ (Unusable(BlobTable[i].Location.Latitude, LatitudeMax) =>
               /\ last_result.err = ""
               /\ Get(last_result.pl, "Latitude") = NaN
               /\ RestOfLocation(last_result.pl, BlobTable[i]))
        /\ (Unusable(BlobTable[i].Location.Longitude, LongitudeMax) =>
               /\ last_result.err = ""
               /\ Get(last_result.pl, "Longitude") = NaN
               /\ RestOfLocation(last_result.pl, BlobTable[i]))
        /\ (BlobTable[i].valid[912] = 1
               /\ Unusable(BlobTable[i].System.OperatorLatitude, LatitudeMax) =>
               /\ last_result.err = ""
               /\ Get(last_result.pl, "OperatorLatitude") = NaN)
        /\ (BlobTable[i].valid[912] = 1
               /\ Unusable(BlobTable[i].System.OperatorLongitude, LongitudeMax) =>
               /\ last_result.err = ""
               /\ Get(last_result.pl, "OperatorLongitude") = NaN)

-----------------------------------------------------------------------------
(* Claims about the events of the two RID translators *)

\* the record has no usable coordinate under one of the two keys: the key is
\* absent, or the decoder put not-a-number there
NoUsableFix(data, klat, klon) ==
    \/ Get(data, klat) \in {None, NaN}
    \/ Get(data, klon) \in {None, NaN}

\* C13: rid_uas_to_cot_xml gives no event for a record without usable
\* Latitude/Longitude, and rid_op_to_cot_xml gives none for a record without
\* usable OperatorLatitude/OperatorLongitude, be the block undecoded or the
\* coordinate replaced by not-a-number.
C13_NoEventWithoutFix ==
    /\ (x_pc \in {"done", "both"} /\ x_data # None
           /\ NoUsableFix(x_data.v, "Latitude", "Longitude")) => x_event = None
    /\ (x_pc = "both"
           /\ NoUsableFix(x_data.v, "OperatorLatitude", "OperatorLongitude"))
          => x_op_event = None

-----------------------------------------------------------------------------
(* Claims about the Sensor Position Cache and the status events *)

\* the inbound messages that are a position report for sensor S1, and the
\* one that is a status report on a topic .../S1 without coordinates
S1PositionMsgs == {i \in DOMAIN MsgTable : MsgTable[i].topic = TopicPosition}
S1StatusMsg == CHOOSE i \in DOMAIN MsgTable :
                   MsgTable[i].topic = TopicStatus /\ MsgTable[i].payload.text = StatusObj

\* the JSON object of each one-object message
ObjectOf == [i \in DOMAIN MsgTable |-> json_loads(MsgTable[i].payload.text).obj]

\* the place in m_log of the latest position report for S1, 0 when there is none
LastS1Position ==
    IF \E k \in DOMAIN m_log : m_log[k].msg \in S1PositionMsgs
    THEN CHOOSE k \in DOMAIN m_log :
            /\ m_log[k].msg \in S1PositionMsgs
            /\ \A j \in DOMAIN m_log : m_log[j].msg \in S1PositionMsgs => j <= k
    ELSE 0

\* the status report for S1 has just been handled, and the latest position
\* report for S1 before it was message i
StatusFollowsPosition(i) ==
    /\ m_last.msg = S1StatusMsg
    /\ m_last.handlers = <<"status">>
    /\ LastS1Position # 0
    /\ m_log[LastS1Position].msg = i

\* the item e of the egress queue is a sensor-status event of S1 whose point is
\* the position that message i reported
IsStatusEventAt(e, i) ==
    /\ e.t = "bytes"
    /\ e.v[2].uid = SensorUidPrefix \o SensorS1
    /\ e.v[2].point.lat = StrOf(Get(ObjectOf[i], "lat"))
    /\ e.v[2].point.lon = StrOf(Get(ObjectOf[i], "lon"))
    /\ ("altHAE" \in DOMAIN ObjectOf[i]
          => e.v[2].point.hae = StrOf(Get(ObjectOf[i], "altHAE")))

\* a status record of S1 has been rendered into exactly one event, which is
\* at the position that message i reported
StatusEventRendered(i) ==
    \E j \in DOMAIN r_log :
        /\ IsStatusRecord(r_log[j].data)
        /\ Len(r_log[j].events) = 1
        /\ IsStatusEventAt(r_log[j].events[1], i)

\* C14: a position report for S1 followed, after any number of messages that
\* are no position report for S1, by a status report on a topic .../S1 without
\* coordinates leads to exactly one sensor-status event whose point is the
\* most recent cached position of S1.
C14_StatusGetsCachedPosition ==
    \A i \in S1PositionMsgs : StatusFollowsPosition(i) ~> StatusEventRendered(i)

\* a status record without a latitude or without a longitude: the sensor had
\* no cached position and the status payload no coordinates of its own
UnlocatedStatus(data) ==
    /\ IsStatusRecord(data)
    /\ (Get(data, "lat") = None \/ Get(data, "lon") = None)

\* none of the items is a serialized CoT event
NoCotEvent(items) == \A k \in DOMAIN items : items[k].t # "bytes"

\* C15: a status record without coordinates gives no CoT event and ends
\* RIDWorker with no exception, whatever the GPS lookup comes to (a fix, no
\* fix, a timeout or an error): both for the records rendered so far and for
\* the record at the head of the queue under every outcome of the lookup.
C15_UnlocatedStatusGivesNoEvent ==
    /\ \A j \in DOMAIN r_log :
          UnlocatedStatus(r_log[j].data) =>
              r_log[j].err = "" /\ NoCotEvent(r_log[j].events)
    /\ (Len(net_queue) > 0 /\ UnlocatedStatus(Head(net_queue))) =>
          \A gps \in GpsOutcomes :
              /\ handle_data(Head(net_queue), w_config, gps).err = ""
              /\ NoCotEvent(handle_data(Head(net_queue), w_config, gps).events)

\* a status report for a sensor that never reported a position was rendered
\* and RIDWorker runs on
C15_Witness ==
    /\ rid_state = "running"
    /\ \E j \in DOMAIN r_log :
          /\ UnlocatedStatus(r_log[j].data)
          /\ "lat" \notin DOMAIN r_log[j].data
          /\ r_log[j].data["sensor_id"] = PyStr(SensorS1)

\* the sensor each inbound message is a position report for: the third
\* segment of a topic that holds "position", <<>> for any other message
ReportedSensor ==
    [i \in DOMAIN MsgTable |->
        IF /\ Find(MsgTable[i].topic, PositionWord) # -1
           /\ Len(Split(MsgTable[i].topic, Slash)) >= 3
        THEN Split(MsgTable[i].topic, Slash)[3] ELSE <<>>]

\* the sensors some inbound message names in the third segment of its topic
SensorIds ==
    {Split(MsgTable[i].topic, Slash)[3] :
        i \in {j \in DOMAIN MsgTable : Len(Split(MsgTable[j].topic, Slash)) >= 3}}

\* the places of m_log where a position report for sensor s was handled
ReportsOf(s) == {k \in DOMAIN m_log : ReportedSensor[m_log[k].msg] = s}

\* for each position report, the entry that holds exactly its fields: each of
\* the eight position fields as the report has it, null when it has none
EntryOf ==
    [i \in {j \in DOMAIN MsgTable : ReportedSensor[j] # <<>>} |->
        [k \in {"sensor_id", "lat", "lon", "altHAE", "altMSL", "alt", "track",
                "magtrack", "speed"} |->
            IF k = "sensor_id" THEN PyStr(ReportedSensor[i])
            ELSE IF k \in DOMAIN ObjectOf[i] THEN ObjectOf[i][k] ELSE None]]

\* C16: after any sequence of inbound messages the cache has an entry for a
\* sensor exactly when a position report for it was handled, and that entry
\* holds exactly the fields of the most recent such report: a field that
\* report lacks is null, whatever earlier reports held, and reports for other
\* sensors leave the entry as it is.
C16_CacheEntryIsLatestReport ==
    /\ DOMAIN sensor_positions \subseteq SensorIds
    /\ \A s \in SensorIds :
          IF ReportsOf(s) = {} THEN s \notin DOMAIN sensor_positions
          ELSE /\ s \in DOMAIN sensor_positions
               /\ sensor_positions[s] =
                    EntryOf[m_log[CHOOSE k \in ReportsOf(s) :
                                     \A j \in ReportsOf(s) : j <= k].msg]

\* S1 reported a position with altHAE, then one without it, a report for S2
\* was handled as well, and the entry of S1 has a null altHAE
C16_Witness ==
    /\ \E a \in ReportsOf(SensorS1) : \E b \in ReportsOf(SensorS1) :
          /\ a < b
          /\ \A j \in ReportsOf(SensorS1) : j <= b
          /\ "altHAE" \in DOMAIN ObjectOf[m_log[a].msg]
          /\ "altHAE" \notin DOMAIN ObjectOf[m_log[b].msg]
    /\ sensor_positions[SensorS1]["altHAE"] = None
    /\ \E s \in SensorIds \ {SensorS1} : ReportsOf(s) # {}

-----------------------------------------------------------------------------
(* Claims about the dispatch of the framed objects *)

\* the handler the stated precedence gives the object obj of a message on
\* topic: "none" says that the object is discarded
HandlerByFields(obj, topic) ==
    IF Find(topic, PositionWord) # -1 THEN "position"
    ELSE IF "data" \in DOMAIN obj THEN "data"
    ELSE IF "status" \in DOMAIN obj THEN "status"
    ELSE "none"

\* C17: every framed object of the last message went to at most one handler,
\* chosen by this precedence: the position handler when the topic holds
\* "position", else the data handler when the object has a data field, else
\* the status handler when it has a status field; any other object is
\* discarded, and a message of such objects alone changes neither the cache
\* nor the queue between the workers.
C17_DispatchByPrecedence ==
    /\ Len(m_last.handlers) = Len(m_last.framed)
    /\ \A k \in DOMAIN m_last.handlers :
          m_last.handlers[k] =
              HandlerByFields(m_last.framed[k], MsgTable[m_last.msg].topic)
    /\ (\A k \in DOMAIN m_last.handlers : m_last.handlers[k] = "none") =>
          m_last.queued = <<>> /\ sensor_positions = m_last.before

\* the topic has the literal segment "position" as its third segment
ThirdSegmentIsPosition(topic) ==
    Len(Split(topic, Slash)) >= 3 /\ Split(topic, Slash)[3] = PositionWord

\* C18: the position handler was selected for the last message exactly when
\* the third slash-delimited segment of its topic is the literal "position",
\* and a report it cached is cached under that third segment of the topic,
\* every other entry of the cache staying as it was.
C18_PositionTopicSelectsHandler ==
    (m_last.msg # 0 /\ Len(m_last.handlers) > 0) =>
        /\ (\E k \in DOMAIN m_last.handlers : m_last.handlers[k] = "position")
              <=> ThirdSegmentIsPosition(MsgTable[m_last.msg].topic)
        /\ sensor_positions # m_last.before =>
              /\ Len(Split(MsgTable[m_last.msg].topic, Slash)) >= 3
              /\ \A s \in (DOMAIN sensor_positions) \cup (DOMAIN m_last.before) :
                    s # Split(MsgTable[m_last.msg].topic, Slash)[3] =>
                        /\ s \in DOMAIN sensor_positions
                        /\ s \in DOMAIN m_last.before
                        /\ sensor_positions[s] = m_last.before[s]

\* the object states protocol "1.0" (as a string or as a number that reads
\* so) and carries a non-empty base64 UASdata in its data field
HasProtocolAndBlob(obj) ==
    /\ Truthy(Get(obj, "protocol"))
    /\ StrOf(Get(obj, "protocol")) = Protocol10
    /\ Get(obj, "data").t = "dict"
    /\ Get(Get(obj, "data").v, "UASdata").t = "b64"

\* how many objects the payload of each inbound message holds
ObjectsIn ==
    [i \in DOMAIN MsgTable |->
        Cardinality({k \in DOMAIN MsgTable[i].payload.text :
                        MsgTable[i].payload.text[k].c = "{"})]

\* C19: a record of decoded data is on the queue only for an object with
\* protocol "1.0" and a non-empty base64 UASdata; any other object handed to
\* the data handler is discarded: no exception, no data record queued, the
\* cache as before, and the objects after it in the message are still framed.
C19_DataHandlerDiscards ==
    /\ \A q \in DOMAIN m_last.queued :
          "topic" \in DOMAIN m_last.queued[q] =>
              \E k \in DOMAIN m_last.handlers :
                  m_last.handlers[k] = "data" /\ HasProtocolAndBlob(m_last.framed[k])
    /\ \A k \in DOMAIN m_last.handlers :
          (m_last.handlers[k] = "data" /\ ~HasProtocolAndBlob(m_last.framed[k])) =>
              /\ m_last.err = ""
              /\ Len(m_last.framed) = ObjectsIn[m_last.msg]
              /\ \A q \in DOMAIN m_last.queued : "topic" \notin DOMAIN m_last.queued[q]
              /\ sensor_positions = m_last.before

-----------------------------------------------------------------------------
(* Claims about the operator event *)

\* rid_op_to_cot_xml made an event from the record
XOpEventMade == x_pc = "both" /\ x_op_event.t = "Element"

\* the UAS identifier of the record, as both translators take it
XUasId ==
    GetDefault(x_data.v, "BasicID", GetDefault(x_data.v, "BasicID_0", UnknownBasicID))

\* C20: every event rid_op_to_cot_xml returns has the uid
\* "RID.<UAS identifier>.op" with the identifier the UAS event is made with,
\* the attribute OperatorID holding the operator identifier and the attribute
\* UASID holding the UAS identifier.
C20_OperatorEventIds ==
    XOpEventMade =>
        /\ x_op_event.v.uid = <<82, 73, 68, 46>> \o StrOf(XUasId) \o <<46, 111, 112>>
        /\ x_event.t = "Element" =>
              x_event.v.uid = <<82, 73, 68, 46>> \o StrOf(XUasId) \o <<46, 117, 97, 115>>
        /\ x_op_event.v.cuas.OperatorID = GetDefault(x_data.v, "OperatorID", XUasId)
        /\ x_op_event.v.cuas.UASID = XUasId

-----------------------------------------------------------------------------
(* Claims about the point of the events *)

\* the record has no valid value under the key: the key is absent, or holds
\* None, or the decoder put not-a-number there
NoValidValue(data, k) == Get(data, k) \in {None, NaN}

\* C21: in the events of rid_uas_to_cot_xml and rid_op_to_cot_xml the point
\* attributes ce, le and hae read "9999999.0" whenever their source field
\* (HorizAccuracy, VertAccuracy, AltitudeGeo or OperatorAltitudeGeo) is
\* absent, None or not-a-number.
C21_SentinelForInvalidFields ==
    /\ (x_pc \in {"done", "both"} /\ x_event.t = "Element") =>
          /\ NoValidValue(x_data.v, "HorizAccuracy") => x_event.v.point.ce = UnknownValue
          /\ NoValidValue(x_data.v, "VertAccuracy") => x_event.v.point.le = UnknownValue
          /\ NoValidValue(x_data.v, "AltitudeGeo") => x_event.v.point.hae = UnknownValue
    /\ XOpEventMade =>
          /\ NoValidValue(x_data.v, "HorizAccuracy") => x_op_event.v.point.ce = UnknownValue
          /\ NoValidValue(x_data.v, "VertAccuracy") => x_op_event.v.point.le = UnknownValue
          /\ NoValidValue(x_data.v, "OperatorAltitudeGeo")
                => x_op_event.v.point.hae = UnknownValue

-----------------------------------------------------------------------------
(* Claims about the order of the records and of the events *)

\* the record rec on the internal queue was made from the framed object obj:
\* a status record carries the object's status, a data record its topic and
\* its data field without the blob
RecordOf(rec, obj) ==
    IF "topic" \in DOMAIN rec
    THEN /\ rec["topic"] = obj["topic"]
         /\ Truthy(Get(obj, "data"))
         /\ Get(obj, "data").t = "dict"
         /\ rec["data"] = PyDict(Without(obj["data"].v, "UASdata"))
    ELSE /\ Truthy(Get(obj, "status"))
         /\ Get(rec, "status") = Get(obj, "status")

\* the records queued are made from framed objects, in the order of the objects
InObjectOrder(framed, queued) ==
    \E f \in [DOMAIN queued -> DOMAIN framed] :
        /\ \A a, b \in DOMAIN queued : a < b => f[a] < f[b]
        /\ \A k \in DOMAIN queued : RecordOf(queued[k], framed[f[k]])

\* the events are the UAS event of the record and then its operator event
UasThenOperator(events) ==
    /\ Len(events) = 2
    /\ events[1] # None /\ events[2] # None
    /\ SubSeq(events[1].v[2].uid, Len(events[1].v[2].uid) - 3, Len(events[1].v[2].uid))
          = <<46, 117, 97, 115>>
    /\ SubSeq(events[2].v[2].uid, Len(events[2].v[2].uid) - 2, Len(events[2].v[2].uid))
          = <<46, 111, 112>>

\* MQTTWorker has handled one more message: its records went to the back of
\* the internal queue in the order of its objects
ReceivedInOrder ==
    /\ net_queue' = net_queue \o m_last'.queued
    /\ InObjectOrder(m_last'.framed, m_last'.queued)
    /\ tx_queue' = tx_queue

\* RIDWorker has handled one more record: it was the one at the front of the
\* internal queue, and its events went to the back of the egress queue, the
\* UAS event before the operator event
RenderedInOrder ==
    /\ r_log'[Len(r_log')].data = Head(net_queue)
    /\ net_queue' = Tail(net_queue)
    /\ tx_queue' = tx_queue \o r_log'[Len(r_log')].events
    /\ (HasFix(Head(net_queue)) /\ HasOperatorFix(Head(net_queue)))
          => UasThenOperator(r_log'[Len(r_log')].events)

\* C22: records go on the internal queue in the order of the inbound messages
\* and of the objects within a message, RIDWorker takes them in that order,
\* and the events go on the egress queue in that order, the UAS event of a
\* data record before its operator event, whatever the interleaving of the
\* two workers.
C22_ArrivalOrderPreserved ==
    [][/\ Len(m_log') > Len(m_log) => ReceivedInOrder
       /\ Len(r_log') > Len(r_log) => RenderedInOrder]_vars

-----------------------------------------------------------------------------
(* Claims about the decoding of the payload *)

\* the characters decode_payload is to strip from the end of the framer
\* run's payload: NUL after decompression, NUL or line feed from plain text
FStrippable == IF f_message.payload.enc = "lzma" THEN {"NUL"} ELSE {"NUL", "LF"}

\* the payload's text with one strippable character taken from its end
FStrippedOnce ==
    IF f_message.payload.text[Len(f_message.payload.text)].c \in FStrippable
    THEN SubSeq(f_message.payload.text, 1, Len(f_message.payload.text) - 1)
    ELSE f_message.payload.text

\* the framer run was on a payload that decodes, as text or after decompression
FDecodedRun == f_pc = "done" /\ f_message.payload.enc \in {"text", "lzma"}

\* C23: decode_payload returns the text of the payload (decompressed where it
\* is no UTF-8 text) with at most one trailing character removed: one NUL
\* after decompression, one NUL or line feed from plain text, so that a
\* payload ending in two of them keeps one; parse_message frames the objects
\* from that text, and a NUL left in it makes the last object fail.
C23_StripsOneTrailingByte ==
    FDecodedRun =>
        /\ f_text = [err |-> "", none |-> FALSE, ret |-> FStrippedOnce]
        /\ \A objs \in FObjectLists : \A trail \in FTrails :
              f_message.payload.text = Join(objs) \o trail =>
                 IF \E k \in DOMAIN FStrippedOnce : FStrippedOnce[k].c = "NUL"
                 THEN /\ f_result.err = "JSONDecodeError"
                      /\ f_result.framed =
                           [k \in 1..(Len(objs) - 1) |->
                              Merge(Members(objs[k]), [topic |-> PyStr(f_message.topic)])]
                 ELSE /\ f_result.err = ""
                      /\ f_result.framed =
                           [k \in DOMAIN objs |->
                              Merge(Members(objs[k]), [topic |-> PyStr(f_message.topic)])]

\* a decompressed payload ending in two NULs has come back with one of them
C23_Witness ==
    /\ FDecodedRun
    /\ f_message.payload.enc = "lzma"
    /\ SubSeq(f_message.payload.text, Len(f_message.payload.text) - 1,
              Len(f_message.payload.text)) = <<NUL, NUL>>
    /\ Len(f_text.ret) = Len(f_message.payload.text) - 1
    /\ f_text.ret[Len(f_text.ret)] = NUL

-----------------------------------------------------------------------------
(* Claims about the merge of the blocks *)

\* what each block gave to a decode of blob that returned, in the order
\* BasicID0, BasicID1, Location, SelfID, System, OperatorID, pages 0..15: the
\* block's record, or the empty record for a block that was not decoded;
\* pages holds what each call of parse_AuthPage returned
BlockRecords(blob, pages) ==
    <<IF blob.valid[892] = 1 THEN parse_basicID0(blob).pl ELSE EmptyDict,
      IF blob.valid[893] = 1 THEN parse_basicID1(blob).pl ELSE EmptyDict,
      IF blob.valid[894] = 1 THEN parse_Location(blob).pl ELSE EmptyDict,
      IF blob.valid[911] = 1 THEN parse_SelfID(blob).pl ELSE EmptyDict,
      IF blob.valid[912] = 1 THEN parse_System(blob).pl ELSE EmptyDict,
      IF blob.valid[913] = 1 THEN parse_OperatorID(blob).pl ELSE EmptyDict>>
    \o [x \in 1..NAuthPages |-> IF (x - 1) \in DOMAIN pages THEN pages[x - 1].pl
                                                            ELSE EmptyDict]

\* the last of the records recs that has the key k
LastWith(recs, k) ==
    CHOOSE n \in DOMAIN recs :
        /\ k \in DOMAIN recs[n]
        /\ \A j \in DOMAIN recs : k \in DOMAIN recs[j] => j <= n

\* the record pl holds every key of the records recs, each with the value of
\* the last record that has it
LaterWins(pl, recs) ==
    /\ DOMAIN pl = UNION {DOMAIN recs[n] : n \in DOMAIN recs}
    /\ \A k \in DOMAIN pl : pl[k] = recs[LastWith(recs, k)][k]

\* the last decode returned a record
LastDecodeReturned == last_blob # 0 /\ last_result.err = ""

\* C24: the record parse_payload returns is the merge of the blocks flagged
\* valid in the order BasicID0, BasicID1, Location, SelfID, System,
\* OperatorID, authentication pages 0..15, a later block's value replacing an
\* earlier one's under the same key.
C24_LaterBlockWins ==
    LastDecodeReturned =>
        /\ DOMAIN last_result.pages = {x \in 0..(NAuthPages - 1) : AuthValid[x] = 1}
        /\ LaterWins(last_result.pl,
                     BlockRecords(BlobTable[last_blob], last_result.pages))

\* a decode of a blob with both BasicID slots, System and pages 0 and 1 valid
\* has returned slot 1's identifier, page 0's Timestamp and page 1's DataPage
C24_Witness ==
    /\ LastDecodeReturned
    /\ \A off \in {892, 893, 912, 895, 896} : BlobTable[last_blob].valid[off] = 1
    /\ parse_basicID0(BlobTable[last_blob]).pl # parse_basicID1(BlobTable[last_blob]).pl
    /\ last_result.pl["BasicID"] = parse_basicID1(BlobTable[last_blob]).pl["BasicID"]
    /\ last_result.pl["IDType"] = PyInt(2)
    /\ last_result.pl["Timestamp"] = last_result.pages[0].pl["Timestamp"]
    /\ last_result.pl["Timestamp"] # parse_System(BlobTable[last_blob]).pl["Timestamp"]
    /\ last_result.pl["DataPage"] = PyInt(1)

-----------------------------------------------------------------------------
(* Claims about the validity flags *)

\* the blob decoded last
LastBlob == BlobTable[last_blob]

\* C25: after a decode of a blob of full length, whatever its flag bytes, the
\* record holds the keys of a block exactly when the flag byte of that block
\* is 1 (BasicID being the key of both BasicID slots), and an authentication
\* page was decoded exactly when its flag byte is 1.
C25_FlagGatesItsBlock ==
    (last_blob # 0 /\ LastBlob.len >= MinBlobLen) =>
        /\ "BasicID" \in DOMAIN last_result.pl
              <=> (LastBlob.valid[892] = 1 \/ LastBlob.valid[893] = 1)
        /\ "Latitude" \in DOMAIN last_result.pl <=> LastBlob.valid[894] = 1
        /\ "Desc" \in DOMAIN last_result.pl <=> LastBlob.valid[911] = 1
        /\ "OperatorLatitude" \in DOMAIN last_result.pl <=> LastBlob.valid[912] = 1
        /\ "OperatorID" \in DOMAIN last_result.pl <=> LastBlob.valid[913] = 1
        /\ \A x \in 0..(NAuthPages - 1) :
              x \in DOMAIN last_result.pages <=> LastBlob.valid[AuthValidBase + x] = 1

-----------------------------------------------------------------------------
(* Claims about the two BasicID slots *)

\* the last decode returned a record whose BasicID keys are those of slot 0,
\* from a blob that holds the same bytes in both slots
Slot0DecodedOfTwins ==
    /\ LastDecodeReturned
    /\ LastBlob.valid[892] = 1
    /\ LastBlob.valid[893] # 1
    /\ LastBlob.BasicID0 = LastBlob.BasicID1

\* C26: for the same bytes in both slots, the UAType, IDType and BasicID that
\* parse_basicID0 puts in the record are those parse_basicID1 returns, and
\* BasicID is a string: the ASCII text without its NUL padding for IDType 1
\* or 2, the hex digits otherwise.
C26_SlotsDecodeAlike ==
    Slot0DecodedOfTwins =>
        /\ \A k \in {"UAType", "IDType", "BasicID"} :
              last_result.pl[k] = parse_basicID1(LastBlob).pl[k]
        /\ last_result.pl["BasicID"] =
              IF LastBlob.BasicID0.IDType \in {1, 2}
              THEN PyStr(RStripNul(LastBlob.BasicID0.id))
              ELSE PyStr(Hex(LastBlob.BasicID0.id))

-----------------------------------------------------------------------------
(* Claims about a message with an object that is no JSON *)

\* the cache entry of S1 after a position report with the fields of obj
PositionEntry(obj) ==
    [k \in {"sensor_id", "lat", "lon", "altHAE", "altMSL", "alt", "track",
            "magtrack", "speed"} |->
        IF k = "sensor_id" THEN PyStr(SensorS1) ELSE Get(obj, k)]

\* the records of the status objects among the objects objs, in their order,
\* for the sensor S1 with no position cached
StatusRecords(objs) ==
    [k \in DOMAIN SelectSeq(objs, LAMBDA ms : "status" \in DOMAIN Members(ms)) |->
        Merge(Members(SelectSeq(objs, LAMBDA ms : "status" \in DOMAIN Members(ms))[k]),
              [sensor_id |-> PyStr(SensorS1)])]

\* parse_message has run on the objects b, one that is no JSON, and the
\* objects a, sent on topic
BrokenRun(topic, b, a) ==
    /\ f_pc = "done"
    /\ f_message = Msg(topic, "text", Join(b) \o Broken \o Join(a))

\* C27: when the k-th object of a message is no JSON, parse_message raises
\* there with the k-1 objects before it handled: each position report is in
\* the cache, each status record is on the queue, in the order of the
\* objects; nothing of the objects after it is in the cache or on the queue.
C27_HandledUpToFailure ==
    \A topic \in {TopicStatus, TopicPosition} : \A b \in FBefore : \A a \in FAfter :
        BrokenRun(topic, b, a) =>
            /\ f_result.err = "JSONDecodeError"
            /\ f_result.framed =
                  [k \in DOMAIN b |-> Merge(Members(b[k]), [topic |-> PyStr(topic)])]
            /\ IF topic = TopicPosition
               THEN /\ net_queue = <<>>
                    /\ sensor_positions =
                          IF b = <<>> THEN EmptyDict
                          ELSE (SensorS1 :> PositionEntry(Members(b[Len(b)])))
               ELSE /\ sensor_positions = EmptyDict
                    /\ net_queue = StatusRecords(b)

\* a status object before the object that is no JSON and one after it: the
\* record of the first is on the queue, and only that
C27_Witness ==
    /\ BrokenRun(TopicStatus, <<Pos1, Stat1>>, <<PosStat2>>)
    /\ f_result.err = "JSONDecodeError"
    /\ Len(net_queue) = 1
    /\ net_queue[1]["status"] = Members(Stat1)["status"]

-----------------------------------------------------------------------------
(* Claims about what the handlers leave alone *)

\* the keys under which the caches p and q differ
ChangedEntries(p, q) ==
    {s \in DOMAIN p \cup DOMAIN q :
        ~(s \in DOMAIN p /\ s \in DOMAIN q /\ p[s] = q[s])}

\* the sensor named by the third segment of the topic of message i, if any
SensorOfTopic(i) ==
    IF Len(Split(MsgTable[i].topic, Slash)) >= 3
    THEN {Split(MsgTable[i].topic, Slash)[3]} ELSE {}

\* MQTTWorker has handled one more message: where its objects went to the
\* position handler, the queues are as they were and the cache differs at
\* most in the entry of the sensor of the topic; where they went to the data
\* or the status handler, the cache is as it was
ReceivedWithinFrame ==
    /\ (\E k \in DOMAIN m_last'.handlers : m_last'.handlers[k] = "position") =>
          /\ net_queue' = net_queue
          /\ tx_queue' = tx_queue
          /\ ChangedEntries(sensor_positions, sensor_positions')
                \subseteq SensorOfTopic(m_last'.msg)
    /\ (\A k \in DOMAIN m_last'.handlers : m_last'.handlers[k] # "position") =>
          sensor_positions' = sensor_positions

\* C28: the position handler changes nothing but the cache entry of the
\* report's sensor and puts nothing on either queue, the data and the status
\* handler leave the cache as it is, and RIDWorker leaves the cache as it is.
C28_HandlerFrames ==
    [][/\ Len(m_log') > Len(m_log) => ReceivedWithinFrame
       /\ Len(r_log') > Len(r_log) => sensor_positions' = sensor_positions]_vars

\* the second message was a position report of S1, and the third went to
\* the status handler, which queued one record with the entry of S1 cached
\* and left the cache as it was
C28_Witness ==
    /\ Len(m_log) = 3
    /\ m_log[2].msg = 14
    /\ m_last.handlers = <<"status">>
    /\ m_last.err = ""
    /\ SensorS1 \in DOMAIN m_last.before
    /\ sensor_positions = m_last.before
    /\ Len(m_last.queued) = 1

-----------------------------------------------------------------------------
(* Claims about the egress queue *)

\* C29: every item on the egress queue is a serialized CoT event: for a
\* record whose translator returned no event, RIDWorker has put nothing there.
C29_OnlyEventsOnEgress ==
    \A k \in DOMAIN tx_queue : tx_queue[k] # None /\ tx_queue[k].t = "bytes"

-----------------------------------------------------------------------------
(* Claims about the link between the two events of a record *)

\* both translators made an event from the record
XBothEventsMade == XOpEventMade /\ x_event.t = "Element"

\* C30: when a record gives both a UAS event and an operator event, the uid
\* of the link in the UAS event is the uid of the operator event, also for a
\* record with an OperatorID of its own.
C30_LinkNamesOperatorEvent ==
    XBothEventsMade => x_event.v.link.uid = x_op_event.v.uid

====
